---- MODULE Spec2Model ----
(***************************************************************************)
(* Continuity engine of 1code: the pre-run context assembler (apply) and   *)
(* the post-run governor (recordRunOutcome) of ContinuityService, with the *)
(* persistent tables and the in-memory tiers they read and write.          *)
(*                                                                         *)
(* Strings are modelled at two levels.  Short strings the code inspects    *)
(* (prompts, responses, paths) are sequences of one-character strings.     *)
(* Long texts (packs, envelopes) are sequences of runs: a run is a number  *)
(* of UTF-16 code units of one encoding class, tagged with the envelope    *)
(* section and the content it came from, so that length, UTF-8 byte length *)
(* and String.slice are computed exactly.  sha256 is modelled as an        *)
(* injective tagging of its input.                                         *)
(***************************************************************************)
EXTENDS Integers, Sequences, FiniteSets, TLC

(***************************************************************************)
(* Program constants                                                       *)
(***************************************************************************)
SEARCH_TTL_MS == 60000
MAX_SUMMARY_LINES == 12
DEVLOG_DIFF_THRESHOLD == 120
DEVLOG_FILE_THRESHOLD == 6
REHYDRATE_TURN_THRESHOLD == 12
SNAPSHOT_TURN_THRESHOLD == 7
REHYDRATE_BYTES_THRESHOLD == 150000
SNAPSHOT_BYTES_THRESHOLD == 90000
REHYDRATE_FILES_THRESHOLD == 18
SNAPSHOT_FILES_THRESHOLD == 10
REHYDRATE_DIFF_THRESHOLD == 280
SNAPSHOT_DIFF_THRESHOLD == 160
REHYDRATE_ELAPSED_MS == 50 * 60 * 1000
SNAPSHOT_ELAPSED_MS == 25 * 60 * 1000
\* writeArtifactIfNew reads the newest 12 artifacts of a (sub-chat, type)
ARTIFACT_DEDUP_LIMIT == 12

STOPWORDS ==
    {<<"t", "h", "e">>,
     <<"t", "h", "i", "s">>,
     <<"t", "h", "a", "t">>,
     <<"w", "i", "t", "h">>,
     <<"f", "r", "o", "m">>,
     <<"i", "n", "t", "o">>,
     <<"a", "b", "o", "u", "t">>,
     <<"w", "o", "u", "l", "d">>,
     <<"c", "o", "u", "l", "d">>,
     <<"s", "h", "o", "u", "l", "d">>,
     <<"t", "h", "e", "r", "e">>,
     <<"t", "h", "e", "i", "r">>,
     <<"y", "o", "u", "r">>,
     <<"n", "e", "e", "d">>,
     <<"h", "a", "v", "e">>,
     <<"p", "l", "e", "a", "s", "e">>,
     <<"j", "u", "s", "t">>,
     <<"w", "h", "e", "n">>,
     <<"w", "h", "a", "t">>,
     <<"w", "h", "e", "r", "e">>,
     <<"w", "h", "i", "c", "h">>,
     <<"w", "h", "i", "l", "e">>,
     <<"a", "f", "t", "e", "r">>,
     <<"b", "e", "f", "o", "r", "e">>,
     <<"c", "o", "d", "e">>,
     <<"r", "e", "p", "o">>,
     <<"p", "r", "o", "j", "e", "c", "t">>}

BOUNDARY_MODULE_PREFIXES ==
    {<<"s", "r", "c", "/", "m", "a", "i", "n", "/", "l", "i", "b", "/", "t", "r", "p", "c", "/">>,
     <<"s", "r", "c", "/", "m", "a", "i", "n", "/", "l", "i", "b", "/", "d", "b", "/">>,
     <<"s", "r", "c", "/", "m", "a", "i", "n", "/", "l", "i", "b", "/", "c", "o", "n", "t", "i", "n", "u", "i", "t", "y", "/">>,
     <<"s", "r", "c", "/", "m", "a", "i", "n", "/", "l", "i", "b", "/", "p", "l", "u", "g", "i", "n", "s", "/">>,
     <<"s", "r", "c", "/", "m", "a", "i", "n", "/", "l", "i", "b", "/", "m", "c", "p", "-">>,
     <<"s", "r", "c", "/", "m", "a", "i", "n", "/", "l", "i", "b", "/", "o", "a", "u", "t", "h">>,
     <<"s", "r", "c", "/", "m", "a", "i", "n", "/", "l", "i", "b", "/", "g", "i", "t", "/">>}

\* a select(...).get() that finds no row; a nullable column or field unset
\* a missing row; null or an omitted field, a present value v being <<v>> where
\* the value is a number or a string
NoRow == [absent |-> TRUE]
Null == <<>>
Some(v) == <<v>>

(***************************************************************************)
(* Character-level strings                                                 *)
(***************************************************************************)
UpperChars == <<"A", "B", "C", "D", "E", "F", "G", "H", "I", "J", "K", "L", "M", "N", "O", "P", "Q", "R", "S", "T", "U", "V", "W", "X", "Y", "Z">>
LowerChars == <<"a", "b", "c", "d", "e", "f", "g", "h", "i", "j", "k", "l", "m", "n", "o", "p", "q", "r", "s", "t", "u", "v", "w", "x", "y", "z">>
KeywordChars ==
    {LowerChars[i] : i \in 1..Len(LowerChars)}
        \cup {"0", "1", "2", "3", "4", "5", "6", "7", "8", "9", "_", ".", "/", "-"}

LowerOf == [c \in {UpperChars[i] : i \in 1..Len(UpperChars)} |->
               LowerChars[CHOOSE i \in 1..Len(UpperChars) : UpperChars[i] = c]]

ToLowerChar(c) == IF c \in DOMAIN LowerOf THEN LowerOf[c] ELSE c

\* String.prototype.toLowerCase
ToLower(s) == [i \in 1..Len(s) |-> ToLowerChar(s[i])]

\* the characters /\s/ matches, among those the model uses
IsSpace(c) == c \in {" ", "\n", "\t"}

RECURSIVE TrimStart(_)
TrimStart(s) ==
    IF s # <<>> /\ IsSpace(Head(s)) THEN TrimStart(Tail(s)) ELSE s

RECURSIVE TrimEnd(_)
TrimEnd(s) ==
    IF s # <<>> /\ IsSpace(s[Len(s)]) THEN TrimEnd(SubSeq(s, 1, Len(s) - 1)) ELSE s

\* String.prototype.trim
Trim(s) == TrimEnd(TrimStart(s))

\* String.prototype.includes
Includes(s, sub) ==
    \E i \in 0..(Len(s) - Len(sub)) : SubSeq(s, i + 1, i + Len(sub)) = sub

\* String.prototype.startsWith
StartsWith(s, p) == Len(s) >= Len(p) /\ SubSeq(s, 1, Len(p)) = p

\* replace(/\s+/g, " ")
RECURSIVE CollapseSpaces(_)
CollapseSpaces(s) ==
    IF s = <<>> THEN <<>>
    ELSE IF IsSpace(Head(s)) THEN <<" ">> \o CollapseSpaces(TrimStart(Tail(s)))
    ELSE <<Head(s)>> \o CollapseSpaces(Tail(s))

\* split("\n"): the lines of s, cur being the line read so far
RECURSIVE SplitLines(_, _)
SplitLines(s, cur) ==
    IF s = <<>> THEN <<cur>>
    ELSE IF Head(s) = "\n" THEN <<cur>> \o SplitLines(Tail(s), <<>>)
    ELSE SplitLines(Tail(s), Append(cur, Head(s)))

RECURSIVE DropNonKeyword(_)
DropNonKeyword(s) ==
    IF s # <<>> /\ Head(s) \notin KeywordChars THEN DropNonKeyword(Tail(s)) ELSE s

\* split(/[^a-z0-9_./-]+/g): the pieces between maximal separator runs
RECURSIVE SplitKeywords(_, _)
SplitKeywords(s, cur) ==
    IF s = <<>> THEN <<cur>>
    ELSE IF Head(s) \notin KeywordChars
         THEN <<cur>> \o SplitKeywords(DropNonKeyword(Tail(s)), <<>>)
         ELSE SplitKeywords(Tail(s), Append(cur, Head(s)))

\* [...new Set(parts)]: duplicates dropped, first occurrences kept in order
RECURSIVE Unique(_)
Unique(s) ==
    IF s = <<>> THEN <<>>
    ELSE LET rest == Unique(SubSeq(s, 1, Len(s) - 1))
             last == s[Len(s)]
         IN  IF \E i \in 1..Len(rest) : rest[i] = last THEN rest ELSE Append(rest, last)

\* Array.prototype.slice(0, k)
Take(s, k) == SubSeq(s, 1, IF k < Len(s) THEN k ELSE Len(s))

\* Array.prototype.slice(-k)
TakeLast(s, k) == SubSeq(s, (IF Len(s) > k THEN Len(s) - k + 1 ELSE 1), Len(s))

\* Array.prototype.filter
RECURSIVE SelectSeqIn(_, _)
SelectSeqIn(s, keep) ==
    IF s = <<>> THEN <<>>
    ELSE (IF Head(s) \in keep THEN <<Head(s)>> ELSE <<>>) \o SelectSeqIn(Tail(s), keep)

\* createHash("sha256").update(input).digest("hex"): collision-free
sha(input) == <<"sha256", input>>

normalizePrompt(prompt) == CollapseSpaces(ToLower(Trim(prompt)))

extractKeywords(prompt) ==
    LET parts == SplitKeywords(ToLower(prompt), <<>>)
        kept  == SelectSeqIn(parts, {p \in {parts[i] : i \in 1..Len(parts)} :
                                        Len(Trim(p)) >= 4 /\ Trim(p) \notin STOPWORDS})
    IN  Take(Unique(kept), 6)

\* the first line with a non-blank character, trimmed; else the trimmed prompt
objectiveLine(prompt) ==
    LET lines == SplitLines(prompt, <<>>)
        found == {i \in 1..Len(lines) : Len(Trim(lines[i])) > 0}
    IN  IF found # {}
        THEN Trim(lines[CHOOSE i \in found : \A j \in found : i <= j])
        ELSE Trim(prompt)

(***************************************************************************)
(* Texts as runs of UTF-16 code units.  cls is the encoding class of the   *)
(* run's units: "ascii" (1 byte a unit), "bmp2" (2 bytes), "bmp3" (3       *)
(* bytes), "pair" (surrogate pairs: 2 units and 4 bytes a character) and   *)
(* "lone" (an unpaired surrogate, which UTF-8 encoding replaces by the     *)
(* 3-byte U+FFFD).                                                         *)
(***************************************************************************)
Run(sec, src, cls, n) == [sec |-> sec, src |-> src, cls |-> cls, n |-> n]

\* n units of class cls; the empty string has no run
Txt(sec, src, cls, n) == IF n <= 0 THEN <<>> ELSE <<Run(sec, src, cls, n)>>

RunBytes(r) ==
    CASE r.cls = "ascii" -> r.n
      [] r.cls = "bmp2"  -> 2 * r.n
      [] r.cls = "bmp3"  -> 3 * r.n
      [] r.cls = "pair"  -> 2 * r.n
      [] r.cls = "lone"  -> 3 * r.n

\* String.prototype.length
RECURSIVE Length(_)
Length(t) == IF t = <<>> THEN 0 ELSE Head(t).n + Length(Tail(t))

\* Buffer.byteLength(value, "utf8")
RECURSIVE ByteLength(_)
ByteLength(t) == IF t = <<>> THEN 0 ELSE RunBytes(Head(t)) + ByteLength(Tail(t))

\* String.prototype.slice(0, k): cutting a surrogate pair leaves its first half
RECURSIVE Slice(_, _)
Slice(t, k) ==
    IF k <= 0 \/ t = <<>> THEN <<>>
    ELSE LET r == Head(t)
         IN  IF r.n <= k THEN <<r>> \o Slice(Tail(t), k - r.n)
             ELSE IF r.cls = "pair" /\ k % 2 = 1
                  THEN Txt(r.sec, r.src, "pair", k - 1) \o Txt(r.sec, r.src, "lone", 1)
                  ELSE <<[r EXCEPT !.n = k]>>

\* Math.floor(current.length * 0.85)
Shrink(len) == (len * 85) \div 100

RECURSIVE clampLoop(_, _)
clampLoop(current, maxBytes) ==
    IF ByteLength(current) > maxBytes /\ Length(current) > 0
    THEN CHOOSE out \in {clampLoop(next, maxBytes) :
                            next \in {Slice(current, Shrink(Length(current)))}} : TRUE
    ELSE current

\* the clamp counting code units for bytes
clampByUnits(value, maxBytes) == Slice(value, maxBytes)

clampByBytes(value, maxBytes) ==
    IF ByteLength(value) <= maxBytes THEN value ELSE clampLoop(value, maxBytes)

\* a character-level string as a text (the model's characters are ASCII)
AsText(sec, s) == Txt(sec, s, "ascii", Len(s))

\* the sections a text has units of, in order of first appearance
Sections(t) == Unique([i \in 1..Len(t) |-> t[i].sec])

(***************************************************************************)
(* Configuration (src/main/lib/config.ts)                                  *)
(***************************************************************************)
ContinuityModes == {"off", "passive", "active"}
TokenModes == {"low", "normal", "debug"}
ArtifactPolicies == {"auto-write-manual-commit", "auto-write-memory-branch"}
DefaultMemoryBranch == "memory/continuity"

\* getContinuityMode not recognising off: an off setting reads as passive
getContinuityModeNeverOff(e) ==
    IF e.continuityMode = "off" THEN "passive" ELSE e.continuityMode

\* the mode the process environment e states
getContinuityMode(e) == e.continuityMode

getContinuityBudgetProfile(mode) ==
    IF mode = "low"
    THEN [maxPackBytes |-> 14000, maxContextFiles |-> 4,
          maxContextSummaryBytes |-> 9000, maxFileReadBytes |-> 90000]
    ELSE IF mode = "debug"
    THEN [maxPackBytes |-> 42000, maxContextFiles |-> 12,
          maxContextSummaryBytes |-> 24000, maxFileReadBytes |-> 300000]
    ELSE [maxPackBytes |-> 24000, maxContextFiles |-> 8,
          maxContextSummaryBytes |-> 16000, maxFileReadBytes |-> 180000]

(***************************************************************************)
(* The world outside the engine: repositories (what the git probes, the    *)
(* file listing and the file reads answer), the clock, the process         *)
(* environment.  A repository state is a record                            *)
(*   git        whether the git probes succeed (else each degrades)        *)
(*   headCommit, branch, files (changed paths, unique and sorted),         *)
(*   diffLines  the numstat total, diffUnits the size of `git diff`,       *)
(*   anchors    the anchor documents present, as <<name, cls, units>>,     *)
(*   listing    the paths `rg --files` prints,                             *)
(*   fileBytes, summaryCls, summaryUnits: the size of each listed or       *)
(*              changed file and the class and size of its summary.        *)
(***************************************************************************)
PathBucket == <<"s", "r", "c", "/", "r", "a", "t", "e", "/", "b", "u", "c", "k", "e", "t", ".", "r", "s">>
PathLimiter == <<"s", "r", "c", "/", "r", "a", "t", "e", "/", "l", "i", "m", "i", "t", "e", "r", ".", "r", "s">>
PathSchema == <<"s", "r", "c", "/", "m", "a", "i", "n", "/", "l", "i", "b", "/", "d", "b", "/", "s", "c", "h", "e", "m", "a", ".", "t", "s">>
PathBucketTest == <<"t", "e", "s", "t", "/", "b", "u", "c", "k", "e", "t", "_", "t", "e", "s", "t", ".", "r", "s">>

\* "f10" ... : the i-th of a run of further changed files (i < 90)
PathNumbered(i) == <<"f", ToString((i + 10) \div 10), ToString((i + 10) % 10)>>

\* n sorted, distinct paths
ManyFiles(n) == [i \in 1..n |-> PathNumbered(i)]

RepoNoGit ==
    [git |-> FALSE, headCommit |-> "", branch |-> "", files |-> <<>>,
     diffLines |-> 0, diffUnits |-> 0, anchors |-> <<>>, listing |-> <<>>,
     fileBytes |-> 0, summaryCls |-> "ascii", summaryUnits |-> 0]

\* one changed file, a diff of 42 lines, a README of 500 bytes
RepoSmall ==
    [git |-> TRUE, headCommit |-> "abc123", branch |-> "feature/x",
     files |-> <<PathBucket>>, diffLines |-> 42, diffUnits |-> 1500,
     anchors |-> << <<"README.md", "ascii", 500>> >>,
     listing |-> <<PathBucket, PathLimiter, PathBucketTest>>,
     fileBytes |-> 4000, summaryCls |-> "ascii", summaryUnits |-> 300]

\* ten changed files, one of them in a boundary module, on the memory branch
RepoMedium ==
    [git |-> TRUE, headCommit |-> "abc123", branch |-> DefaultMemoryBranch,
     files |-> ManyFiles(9) \o <<PathSchema>>, diffLines |-> 160, diffUnits |-> 3000,
     anchors |-> << <<"CLAUDE.md", "bmp2", 2000>>, <<"README.md", "ascii", 500>> >>,
     listing |-> <<PathBucket, PathLimiter, PathSchema>>,
     fileBytes |-> 100000, summaryCls |-> "bmp3", summaryUnits |-> 1000]

\* eighteen changed files, long non-ASCII documents and summaries
RepoLarge ==
    [git |-> TRUE, headCommit |-> "def456", branch |-> "feature/x",
     files |-> ManyFiles(18), diffLines |-> 300, diffUnits |-> 9000,
     anchors |-> << <<"AGENTS.md", "pair", 4000>>, <<"CLAUDE.md", "bmp3", 5000>>,
                    <<"README.md", "ascii", 6000>> >>,
     listing |-> <<PathBucket, PathLimiter, PathBucketTest, PathSchema>>,
     fileBytes |-> 20000, summaryCls |-> "bmp3", summaryUnits |-> 1100]

Roots == {"/w/app"}
SubChatIds == {"s1", "s2"}
ChatOf(subChatId) == "chat-of-" \o subChatId
Providers == {"claude", "codex"}
ChatModes == {"plan", "agent"}

PromptRefactor == <<"R", "e", "f", "a", "c", "t", "o", "r", " ", "t", "h", "e", " ", "b", "u", "c", "k", "e", "t">>
PromptRefactorLoud == <<" ", "R", "E", "F", "A", "C", "T", "O", "R", " ", " ", "t", "h", "e", " ", "b", "u", "c", "k", "e", "t", "\n">>
PromptFix == <<"f", "i", "x", " ", "i", "t">>

ResponseDone == <<"D", "o", "n", "e", ".">>
ResponsePivot == <<"L", "e", "t", " ", "u", "s", " ", "P", "i", "v", "o", "t">>

(***************************************************************************)
(* State                                                                   *)
(***************************************************************************)
VARIABLES
    env,                \* process.env as the config getters read it
    clock,              \* Date.now(), in ms
    repo,               \* the repository state under each root
    settings,           \* continuity_settings: the singleton row, or NoRow
    packRows,           \* continuity_pack_cache: key -> row
    stateRows,          \* continuity_state: sub-chat id -> row or NoRow
    artifacts,          \* continuity_artifact: the rows, in insertion order
    subChats,           \* sub_chats: sub-chat id -> row or NoRow
    chats,              \* chats: chat id -> updatedAt
    contextPackCache,   \* ContinuityService.contextPackCache: key -> pack
    subChatState,       \* ContinuityService.subChatState: id -> hash or Null
    protocolState,      \* ContinuityService.protocolState: id -> key or Null
    searchCache,        \* ContinuityService.searchCache: key -> timestamp and files
    searchRows,         \* continuity_search_cache: key -> row
    calls,              \* the calls in flight: where each is suspended, its locals
    ret                 \* the last operation: its inputs, result and telemetry

vars ==
    <<env, clock, repo, settings, packRows, stateRows, artifacts, subChats, chats,
      contextPackCache, subChatState, protocolState, searchCache, searchRows, calls, ret>>

persistent == <<settings, packRows, stateRows, artifacts, subChats, chats, searchRows>>
inMemory == <<contextPackCache, subChatState, protocolState, searchCache, calls>>

\* f with key k set to v, k being in DOMAIN f or not (Map.set, an upsert)
Put(f, k, v) == [x \in DOMAIN f \cup {k} |-> IF x = k THEN v ELSE f[x]]

EmptyMap == [x \in {} |-> Null]

\* the calls that may be in flight together, none of them started
CallIds == {1, 2}
NoCalls == [c \in CallIds |-> [pc |-> "idle"]]

(***************************************************************************)
(* Repo probe                                                              *)
(***************************************************************************)
\* Array.prototype.join
RECURSIVE Join(_, _)
Join(parts, sep) ==
    IF parts = <<>> THEN <<>>
    ELSE IF Len(parts) = 1 THEN parts[1]
    ELSE parts[1] \o sep \o Join(Tail(parts), sep)

getRepoState(r) ==
    IF r.git
    THEN [headCommit |-> r.headCommit, changedFiles |-> r.files,
          changedFilesHash |-> sha(Join(r.files, <<"\n">>))]
    ELSE [headCommit |-> "no-git", changedFiles |-> <<>>,
          changedFilesHash |-> <<"no-changes">>]

getDiffStats(r) == IF r.git THEN r.diffLines ELSE 0

\* clampByBytes(stdout.trim(), 4_000), "" when git fails
getDiffSnippet(r) ==
    IF r.git
    THEN clampByBytes(Txt("DELTA", <<"diff", r.headCommit, r.files, r.diffLines>>,
                          "ascii", r.diffUnits), 4000)
    ELSE <<>>

currentBranch(r) == IF r.git THEN r.branch ELSE "unknown"

(***************************************************************************)
(* Pack builders                                                           *)
(***************************************************************************)
RECURSIVE anchorParts(_)
anchorParts(docs) ==
    IF docs = <<>> THEN <<>>
    ELSE LET d == Head(docs)
             part == Txt("ANCHOR", <<"heading", d[1]>>, "ascii", 13)
                        \o clampByBytes(Txt("ANCHOR", <<"doc", d[1]>>, d[2], d[3]), 3000)
         IN  part \o (IF Len(docs) > 1 THEN Txt("ANCHOR", <<"join">>, "ascii", 2) ELSE <<>>)
                  \o anchorParts(Tail(docs))

buildAnchorPack(r) ==
    IF r.anchors = <<>>
    THEN Txt("ANCHOR", <<"No anchor files found.">>, "ascii", 22)
    ELSE anchorParts(r.anchors)

\* path.basename of a lower-cased relative path
RECURSIVE basename(_)
basename(path) ==
    IF \E i \in 1..Len(path) : path[i] = "/"
    THEN basename(Tail(path))
    ELSE path

RECURSIVE scoreOf(_, _)
scoreOf(lower, keywords) ==
    IF keywords = <<>> THEN 0
    ELSE (IF Includes(lower, Head(keywords)) THEN 3 ELSE 0)
           + (IF Includes(basename(lower), Head(keywords)) THEN 4 ELSE 0)
           + scoreOf(lower, Tail(keywords))

\* the score of each entry of s
RECURSIVE scoresOf(_, _)
scoresOf(s, keywords) ==
    IF s = <<>> THEN <<>>
    ELSE <<scoreOf(ToLower(Head(s)), keywords)>> \o scoresOf(Tail(s), keywords)

\* the entries of s at the indices idx, in the order of s
RECURSIVE atIndices(_, _)
atIndices(s, idx) ==
    IF idx = {} THEN <<>>
    ELSE LET first == CHOOSE i \in idx : \A j \in idx : i <= j
         IN  <<s[first]>> \o atIndices(s, idx \ {first})

\* the entries of s with score sc, then those with lower positive scores:
\* a stable sort by descending score of the entries with a positive score
RECURSIVE byScore(_, _, _)
byScore(s, scores, sc) ==
    IF sc <= 0 THEN <<>>
    ELSE atIndices(s, {i \in 1..Len(s) : scores[i] = sc}) \o byScore(s, scores, sc - 1)

\* the search and file-summary caches are transparent here: a hit returns
\* what a recomputation over the same listing and contents returns
searchRelevantFiles(r, keywords) ==
    IF keywords = <<>> THEN <<>>
    ELSE CHOOSE hits \in {Take(byScore(r.listing, scores, 7 * Len(keywords)), 24) :
                              scores \in {scoresOf(r.listing, keywords)}} : TRUE

\* null for a missing, irregular or oversized file
readSummary(r, filePath, maxFileReadBytes) ==
    IF (\E i \in 1..Len(r.listing) : r.listing[i] = filePath)
           \/ (\E i \in 1..Len(r.files) : r.files[i] = filePath)
    THEN IF r.fileBytes > maxFileReadBytes THEN Null
         ELSE Txt("CONTEXT", <<"summary", filePath>>, r.summaryCls, r.summaryUnits)
    ELSE Null

\* the loop of buildContextPack: the summaries kept, totalBytes being theirs
RECURSIVE accumulate(_, _, _, _)
accumulate(r, uniqueFiles, budget, totalBytes) ==
    IF uniqueFiles = <<>> THEN <<>>
    ELSE LET summary == readSummary(r, Head(uniqueFiles), budget.maxFileReadBytes)
         IN  IF summary # Null /\ summary # <<>>
             THEN IF totalBytes + ByteLength(summary) > budget.maxContextSummaryBytes
                  THEN <<>>
                  ELSE <<summary>> \o accumulate(r, Tail(uniqueFiles), budget,
                                                 totalBytes + ByteLength(summary))
             ELSE accumulate(r, Tail(uniqueFiles), budget, totalBytes)

RECURSIVE joinTexts(_, _)
joinTexts(texts, sep) ==
    IF texts = <<>> THEN <<>>
    ELSE IF Len(texts) = 1 THEN texts[1]
    ELSE texts[1] \o sep \o joinTexts(Tail(texts), sep)

\* a time as a timestamp column of the store returns it: whole seconds
storedTime(ms) == (ms \div 1000) * 1000

\* `${repoRoot}:${headCommit}:${keywordQuery}`
searchKeyOf(root, headCommit, keywords) == <<root, headCommit, Join(keywords, <<",">>)>>

\* getPersistedSearch without the test of the row's age
getPersistedSearchAnyAge(rows, key, now, up) ==
    IF ~up \/ key \notin DOMAIN rows THEN Null
    ELSE Some([timestamp |-> rows[key].updatedAt, files |-> rows[key].files])

\* the row of the key if the store answers and the row is not older than the
\* lifetime, as a result with the row's time
getPersistedSearch(rows, key, now, up) ==
    IF ~up \/ key \notin DOMAIN rows THEN Null
    ELSE IF now - rows[key].updatedAt > SEARCH_TTL_MS THEN Null
    ELSE Some([timestamp |-> rows[key].updatedAt, files |-> rows[key].files])

\* the upsert of the result under the key; a failing store keeps the table
storePersistedSearch(rows, key, root, headCommit, result, up) ==
    IF ~up THEN rows
    ELSE Put(rows, key, [key |-> key, repoRoot |-> root, query |-> key[3],
                         commitHash |-> headCommit, scope |-> "repo",
                         files |-> result.files,
                         updatedAt |-> storedTime(result.timestamp)])

\* searchRelevantFiles with its two tiers: the files it returns and the
\* tiers it leaves
searchThroughCache(hot, rows, root, r, keywords, headCommit, now, up) ==
    IF keywords = <<>> THEN [files |-> <<>>, hot |-> hot, rows |-> rows]
    ELSE LET key == searchKeyOf(root, headCommit, keywords)
             persistedSearch == getPersistedSearch(rows, key, now, up)
             computed == [timestamp |-> now, files |-> searchRelevantFiles(r, keywords)]
         IN  IF key \in DOMAIN hot /\ now - hot[key].timestamp < SEARCH_TTL_MS
             THEN [files |-> hot[key].files, hot |-> hot, rows |-> rows]
             ELSE IF persistedSearch # Null
             THEN [files |-> persistedSearch[1].files,
                   hot |-> Put(hot, key, persistedSearch[1]), rows |-> rows]
             ELSE [files |-> computed.files, hot |-> Put(hot, key, computed),
                   rows |-> storePersistedSearch(rows, key, root, headCommit, computed, up)]

\* buildContextPack from the search hits on: the candidates, the summaries
contextPackOf(searchHits, r, repoState, budget) ==
    LET candidateFiles == Take(repoState.changedFiles, 4) \o searchHits
        uniqueFiles == Take(Unique(candidateFiles), budget.maxContextFiles)
    IN  IF uniqueFiles = <<>>
        THEN Txt("CONTEXT", <<"No relevant files identified.">>, "ascii", 29)
        ELSE joinTexts(accumulate(r, uniqueFiles, budget, 0),
                       Txt("CONTEXT", <<"separator">>, "ascii", 7))

\* buildContextPack with both tiers of the search cache empty
buildContextPack(r, repoState, prompt, budget) ==
    contextPackOf(searchRelevantFiles(r, extractKeywords(prompt)), r, repoState, budget)

(***************************************************************************)
(* Stored messages.  A chat message is [kind |-> "chat", role, lines]; the *)
(* carry-over message of a rehydrate is [kind |-> "rehydrate", role, mode, *)
(* reasons, carry, prompt], carry being the <<type, first line>> pairs of  *)
(* the artifacts it lists.                                                 *)
(***************************************************************************)
FailureWords ==
    {<<"f", "a", "i", "l">>, <<"f", "a", "i", "l", "e", "d">>, <<"e", "r", "r", "o", "r">>, <<"e", "x", "c", "e", "p", "t", "i", "o", "n">>, <<"a", "s", "s", "e", "r", "t">>}

\* /fail|failed|error|exception|assert/i.test(line)
isFailureLine(line) == \E w \in FailureWords : Includes(ToLower(line), w)

TypeChars(type) ==
    CASE type = "devlog" -> <<"d", "e", "v", "l", "o", "g">>
      [] type = "adr" -> <<"a", "d", "r">>
      [] type = "rejected-approach" -> <<"r", "e", "j", "e", "c", "t", "e", "d", "-", "a", "p", "p", "r", "o", "a", "c", "h">>

\* the lines of the text parts of one stored message that the digest keeps
messageFailureLines(m) ==
    IF m.kind = "chat" THEN SelectSeq(m.lines, isFailureLine)
    ELSE LET carryLines == [i \in 1..Len(m.carry) |->
                              <<"-", " ">> \o TypeChars(m.carry[i][1]) \o <<":", " ">>
                                  \o m.carry[i][2]]
             promptLines == SplitLines(<<"l", "a", "t", "e", "s", "t", "_", "u", "s", "e", "r", "_", "p", "r", "o", "m", "p", "t", ":", " ">> \o m.prompt, <<>>)
         IN  SelectSeq(carryLines \o promptLines, isFailureLine)

RECURSIVE failureLinesOf(_)
failureLinesOf(messages) ==
    IF messages = <<>> THEN <<>>
    ELSE messageFailureLines(Head(messages)) \o failureLinesOf(Tail(messages))

\* "" when the row is missing, the read fails or no line matches
getLatestFailingTestDigest(row, up) ==
    IF ~up \/ row = NoRow THEN <<>>
    ELSE LET failureLines == TakeLast(failureLinesOf(TakeLast(row.messages, 12)), 40)
         IN  IF failureLines = <<>> THEN <<>>
             ELSE clampByBytes(AsText("DELTA", Join(failureLines, <<"\n">>)), 2000)

\* the hot entry, else the persisted row's hash, else null
getSubChatState(hot, row, up) ==
    IF hot # Null THEN hot
    ELSE IF up /\ row # NoRow THEN row.lastChangedFilesHash
    ELSE Null

OrNone(text, what) == IF text = <<>> THEN Txt("DELTA", <<what, "none">>, "ascii", 4) ELSE text

changedFilesLine(repoState) ==
    Txt("DELTA", <<"changed_files: ">>, "ascii", 16)
        \o OrNone(AsText("DELTA", Join(Take(repoState.changedFiles, 20), <<",", " ">>)),
                  "changed_files")

\* a delta pack that compares no hash: every later run has the unchanged form
buildDeltaPackHashBlind(previous, repoState, prompt, diffSnippet, failingTestDigest) ==
    LET objective == Txt("DELTA", <<"objective: ">>, "ascii", 12)
                        \o clampByBytes(AsText("DELTA", objectiveLine(prompt)), 200)
        digest == Txt("DELTA", <<"failing_test_digest: ">>, "ascii", 22)
                        \o OrNone(failingTestDigest, "failing_test_digest")
        snippet == Txt("DELTA", <<"[DIFF_SNIPPET]">>, "ascii", 17)
                        \o OrNone(diffSnippet, "diff")
    IN  IF previous = Null
        THEN Txt("DELTA", <<"first_run: true">>, "ascii", 15) \o objective
                \o changedFilesLine(repoState) \o digest \o snippet
        ELSE Txt("DELTA", <<"repo_delta: unchanged">>, "ascii", 21) \o objective \o digest

buildDeltaPack(previous, repoState, prompt, diffSnippet, failingTestDigest) ==
    LET objective == Txt("DELTA", <<"objective: ">>, "ascii", 12)
                        \o clampByBytes(AsText("DELTA", objectiveLine(prompt)), 200)
        digest == Txt("DELTA", <<"failing_test_digest: ">>, "ascii", 22)
                        \o OrNone(failingTestDigest, "failing_test_digest")
        snippet == Txt("DELTA", <<"[DIFF_SNIPPET]">>, "ascii", 17)
                        \o OrNone(diffSnippet, "diff")
    IN  IF previous = Null
        THEN Txt("DELTA", <<"first_run: true">>, "ascii", 15) \o objective
                \o changedFilesLine(repoState) \o digest \o snippet
        ELSE IF previous = repoState.changedFilesHash
        THEN Txt("DELTA", <<"repo_delta: unchanged">>, "ascii", 21) \o objective \o digest
        ELSE Txt("DELTA", <<"repo_delta: changed">>, "ascii", 19) \o objective
                \o changedFilesLine(repoState) \o digest \o snippet

(***************************************************************************)
(* Envelopes.  Each section is its label line, its body and a blank line;  *)
(* the last label stands alone.                                            *)
(***************************************************************************)
Section(sec, labelLen, body) ==
    Txt(sec, <<"label">>, "ascii", labelLen + 1) \o body
        \o Txt(sec, <<"blank">>, "ascii", 2)

\* the label and the four id lines; an id is 64 hex digits, a missing one "none"
stateIdsBlock(stateIds) ==
    Txt("STATE_IDS", <<"state_ids", stateIds>>, "ascii",
        28 + 1 + (14 + 64) + 1 + (15 + 64) + 1 + (13 + 64) + 1
           + (16 + (IF stateIds.planContractId = Null THEN 4 ELSE 64)) + 2)

objectiveSection(prompt) ==
    Section("OBJECTIVE", 17, clampByBytes(AsText("OBJECTIVE", objectiveLine(prompt)), 240))

userRequestLabel == Txt("USER_REQUEST", <<"label">>, "ascii", 20)

\* the delta-only envelope with the anchor section left in
deltaOnlyEnvelopeWithAnchor(stateIds, deltaPack, prompt) ==
    stateIdsBlock(stateIds) \o Section("ANCHOR", 25, <<>>) \o Section("DELTA", 24, deltaPack)
        \o objectiveSection(prompt) \o userRequestLabel

deltaOnlyEnvelope(stateIds, deltaPack, prompt) ==
    stateIdsBlock(stateIds) \o Section("DELTA", 24, deltaPack)
        \o objectiveSection(prompt) \o userRequestLabel

planContract(planContractId, prompt) ==
    Txt("PLAN_CONTRACT", <<"id", planContractId>>, "ascii", 4 + 64 + 25)
        \o clampByBytes(AsText("PLAN_CONTRACT", objectiveLine(prompt)), 200)
        \o Txt("PLAN_CONTRACT", <<"format">>, "ascii", 27)

composite(stateIds, anchorPack, contextPack, mode, deltaPack, prompt) ==
    stateIdsBlock(stateIds)
        \o Section("ANCHOR", 25, anchorPack)
        \o Section("CONTEXT", 26, contextPack)
        \o (IF mode = "plan"
            THEN Section("PLAN_CONTRACT", 21, planContract(stateIds.planContractId, prompt))
            ELSE <<>>)
        \o Section("DELTA", 24, deltaPack)
        \o objectiveSection(prompt) \o userRequestLabel

\* `${pack}\n\n${input.prompt}`
withPrompt(pack, prompt) ==
    pack \o Txt("SEPARATOR", <<"blank">>, "ascii", 2) \o AsText("PROMPT", prompt)

(***************************************************************************)
(* Bounds of the model                                                     *)
(***************************************************************************)
\* artifact rows and clock steps of SpecActive
MaxActiveArtifacts == 6
MaxActiveTicks == 1
\* pack-cache entries (the code's cache is unbounded)
MaxPacks == 1
\* artifact rows
MaxArtifacts == 2
\* turns_since_snapshot a call may start from
MaxTurns == 2
\* clock ticks
MaxTicks == 1
\* stored chat messages of a sub-chat
MaxMessages == 1
\* pack-cache entries while the token mode changes
MaxCachePacks == 2
\* agent runs of one sub-chat
MaxRuns == 14

(***************************************************************************)
(* Store access.  up says whether the store answers during the call: when  *)
(* it does not, every read takes its catch branch and every write is lost. *)
(***************************************************************************)
getConfiguredTokenMode(row, fallback, up) ==
    IF up /\ row # NoRow /\ row.tokenMode \in TokenModes THEN row.tokenMode ELSE fallback

\* the hot pack, else the persisted one, else null
getCachedPack(hot, rows, key, up) ==
    IF key \in DOMAIN hot /\ hot[key] # <<>> THEN hot[key]
    ELSE IF up /\ key \in DOMAIN rows /\ rows[key].pack # <<>> THEN rows[key].pack
    ELSE Null

\* a cache key that leaves the provider out
cacheKeyOfNoProvider(taskFingerprint, repoState, provider, mode, budget) ==
    <<taskFingerprint, repoState.changedFilesHash, repoState.headCommit, "any", mode,
      budget.maxPackBytes>>

cacheKeyOf(taskFingerprint, repoState, provider, mode, budget) ==
    <<taskFingerprint, repoState.changedFilesHash, repoState.headCommit, provider, mode,
      budget.maxPackBytes>>

\* the upsert adding the pack's bytes to the stored total
storeSubChatStateRowAdding(row, subChatId, changedFilesHash, pack, now) ==
    IF row = NoRow
    THEN [subChatId |-> subChatId, lastChangedFilesHash |-> changedFilesHash,
          turnsSinceSnapshot |-> 0, totalInjectedBytes |-> ByteLength(pack),
          lastSnapshotAt |-> Null, updatedAt |-> now]
    ELSE [row EXCEPT !.lastChangedFilesHash = changedFilesHash,
                     !.totalInjectedBytes = @ + ByteLength(pack),
                     !.updatedAt = now]

\* the upsert of storeSubChatState
storeSubChatStateRow(row, subChatId, changedFilesHash, pack, now) ==
    IF row = NoRow
    THEN [subChatId |-> subChatId, lastChangedFilesHash |-> changedFilesHash,
          turnsSinceSnapshot |-> 0, totalInjectedBytes |-> ByteLength(pack),
          lastSnapshotAt |-> Null, updatedAt |-> now]
    ELSE [row EXCEPT !.lastChangedFilesHash = changedFilesHash,
                     !.totalInjectedBytes = ByteLength(pack),
                     !.updatedAt = now]

packMetrics(provider, mode, cacheHit, packBytes, injectedBytes, reusedPercent) ==
    [event |-> "pack_metrics", provider |-> provider, mode |-> mode,
     cacheHit |-> cacheHit, packBytes |-> packBytes, injectedBytes |-> injectedBytes,
     reusedPercent |-> reusedPercent]

Max(a, b) == IF a >= b THEN a ELSE b

\* the returned prompt without the passive branch
returnedPromptInjected(continuityMode, inputPrompt, injectedPrompt) == injectedPrompt

\* the prompt and injectedBytes apply returns: passive returns the input prompt
returnedPrompt(continuityMode, inputPrompt, injectedPrompt) ==
    IF continuityMode = "passive" THEN inputPrompt ELSE injectedPrompt

returnedBytes(continuityMode, injectedBytes) ==
    IF continuityMode = "passive" THEN 0 ELSE injectedBytes

\* the persistent writes of a missing apply in the order of its statements
applyWriteOrder == <<"pack-cache", "session-state">>

\* what is left of a call the process died in: no output, the side effects
\* performed before
crashOutput(call, input, continuityMode, completed) ==
    [op |-> "crash", call |-> call, continuityMode |-> continuityMode,
     subChatId |-> input.subChatId, input |-> input, completed |-> completed]

\* an output that reports every hit as a full-envelope hit
applyOutputFullReuse(input, continuityMode, prompt, cacheHit, injectedBytes, reusedPercent, stateIds, cacheKey, budget, pack, telemetry, up) ==
    [op |-> "apply", continuityMode |-> continuityMode, subChatId |-> input.subChatId,
     input |-> input, up |-> up, prompt |-> prompt, cacheHit |-> cacheHit,
     injectedBytes |-> injectedBytes,
     reusedPercent |-> IF cacheHit THEN 75 ELSE reusedPercent,
     stateIds |-> stateIds, cacheKey |-> cacheKey, budget |-> budget, pack |-> pack,
     telemetry |-> telemetry]

applyOutput(input, continuityMode, prompt, cacheHit, injectedBytes, reusedPercent, stateIds, cacheKey, budget, pack, telemetry, up) ==
    [op |-> "apply", continuityMode |-> continuityMode, subChatId |-> input.subChatId,
     input |-> input, up |-> up, prompt |-> prompt, cacheHit |-> cacheHit,
     injectedBytes |-> injectedBytes, reusedPercent |-> reusedPercent,
     stateIds |-> stateIds, cacheKey |-> cacheKey, budget |-> budget, pack |-> pack,
     telemetry |-> telemetry]

(***************************************************************************)
(* ContinuityService.apply                                                 *)
(***************************************************************************)
\* apply with the first `done` of its persistent writes performed: both when
\* the call returns, fewer when the process dies during the call
ApplyCall(input, up, done) ==
    LET continuityMode == getContinuityMode(env)
        tokenMode == getConfiguredTokenMode(settings, env.tokenMode, up)
        budget == getContinuityBudgetProfile(tokenMode)
        r == repo[input.root]
        promptText == AsText("PROMPT", input.prompt)
    IN  \* each const of the code is bound once, in the code's order
        \E taskFingerprint \in {sha(normalizePrompt(input.prompt))} :
        \E planContractId \in {IF input.mode = "plan" THEN taskFingerprint ELSE Null} :
        \E fallbackStateIds \in {[anchorPackId |-> <<"none">>, contextPackId |-> <<"none">>,
                                  deltaPackId |-> <<"none">>,
                                  planContractId |-> planContractId]} :
        IF continuityMode = "off"
        THEN /\ done = Len(applyWriteOrder)
             /\ ret' = applyOutput(input, continuityMode, promptText, FALSE, 0, 100,
                                   fallbackStateIds, Null, budget, Null, <<>>, up)
             /\ UNCHANGED <<env, clock, repo, persistent, inMemory>>
        ELSE
        \E repoState \in {getRepoState(r)} :
        \E cacheKey \in {cacheKeyOf(taskFingerprint, repoState, input.provider, input.mode,
                                    budget)} :
        \E cached \in {getCachedPack(contextPackCache, packRows, cacheKey, up)} :
        \E previous \in {getSubChatState(subChatState[input.subChatId],
                                         stateRows[input.subChatId], up)} :
        \E deltaPack \in {buildDeltaPack(previous, repoState, input.prompt, getDiffSnippet(r),
                              getLatestFailingTestDigest(subChats[input.subChatId], up))} :
        \E stateIds \in {[anchorPackId |-> sha(<<input.root, ":anchor:", repoState.headCommit>>),
                          contextPackId |-> sha(cacheKey),
                          deltaPackId |-> sha(deltaPack),
                          planContractId |-> planContractId]} :
        LET hotAfterLookup ==
                IF cached # Null THEN Put(contextPackCache, cacheKey, cached)
                ELSE contextPackCache
            stateAfterLookup ==
                IF previous # Null THEN [subChatState EXCEPT ![input.subChatId] = previous]
                ELSE subChatState
            canUseDeltaOnly == protocolState[input.subChatId] = cacheKey
            returns == done = Len(applyWriteOrder)
            written == {applyWriteOrder[i] : i \in 1..done}
        IN  IF cached # Null
            THEN \E selectedPrompt \in
                        {IF canUseDeltaOnly
                         THEN withPrompt(deltaOnlyEnvelope(stateIds, deltaPack, input.prompt),
                                         input.prompt)
                         ELSE withPrompt(cached, input.prompt)} :
                 \E injectedBytes \in
                        {Max(ByteLength(selectedPrompt) - ByteLength(promptText), 0)} :
                 LET reusedPercent == IF canUseDeltaOnly THEN 95 ELSE 75
                     telemetry == <<packMetrics(input.provider, input.mode, TRUE,
                                                ByteLength(selectedPrompt), injectedBytes,
                                                reusedPercent)>>
                 IN  /\ done = Len(applyWriteOrder)
                     /\ contextPackCache' = hotAfterLookup
                     /\ subChatState' = stateAfterLookup
                     /\ protocolState' = [protocolState EXCEPT ![input.subChatId] = cacheKey]
                     /\ ret' = applyOutput(input, continuityMode,
                                            returnedPrompt(continuityMode, promptText,
                                                           selectedPrompt),
                                            TRUE,
                                            returnedBytes(continuityMode, injectedBytes),
                                            reusedPercent, stateIds, cacheKey, budget,
                                            cached, telemetry, up)
                     /\ UNCHANGED <<env, clock, repo, persistent, searchCache, calls>>
            ELSE \E search \in
                        {searchThroughCache(searchCache, searchRows, input.root, r,
                                            extractKeywords(input.prompt),
                                            repoState.headCommit, clock, up)} :
                 \E budgeted \in
                        {clampByBytes(composite(stateIds, buildAnchorPack(r),
                                                contextPackOf(search.files, r, repoState,
                                                              budget),
                                                input.mode, deltaPack, input.prompt),
                                      budget.maxPackBytes)} :
                 \E injectedBytes \in
                        {Max(ByteLength(withPrompt(budgeted, input.prompt))
                                - ByteLength(promptText), 0)} :
                 LET telemetry == <<packMetrics(input.provider, input.mode, FALSE,
                                                ByteLength(budgeted), injectedBytes, 35)>>
                 IN  /\ contextPackCache' =
                            IF returns THEN Put(contextPackCache, cacheKey, budgeted)
                            ELSE EmptyMap
                     /\ packRows' =
                            IF up /\ "pack-cache" \in written
                            THEN Put(packRows, cacheKey,
                                     [key |-> cacheKey, taskFingerprint |-> taskFingerprint,
                                      changedFilesHash |-> repoState.changedFilesHash,
                                      headCommit |-> repoState.headCommit,
                                      provider |-> input.provider, mode |-> input.mode,
                                      budgetBytes |-> budget.maxPackBytes,
                                      pack |-> budgeted, updatedAt |-> clock])
                            ELSE packRows
                     /\ subChatState' =
                            IF returns
                            THEN [subChatState EXCEPT
                                    ![input.subChatId] = repoState.changedFilesHash]
                            ELSE [s \in SubChatIds |-> Null]
                     /\ stateRows' =
                            IF up /\ "session-state" \in written
                            THEN [stateRows EXCEPT ![input.subChatId] =
                                    storeSubChatStateRow(@, input.subChatId,
                                                         repoState.changedFilesHash,
                                                         budgeted, clock)]
                            ELSE stateRows
                     /\ protocolState' =
                            IF returns
                            THEN [protocolState EXCEPT ![input.subChatId] = cacheKey]
                            ELSE [s \in SubChatIds |-> Null]
                     /\ searchCache' = IF returns THEN search.hot ELSE EmptyMap
                     /\ searchRows' = search.rows
                     /\ calls' = IF returns THEN calls ELSE NoCalls
                     /\ ret' = IF returns
                               THEN applyOutput(input, continuityMode,
                                        returnedPrompt(continuityMode, promptText,
                                                       withPrompt(budgeted, input.prompt)),
                                        FALSE,
                                        returnedBytes(continuityMode, injectedBytes),
                                        35, stateIds, cacheKey, budget, budgeted,
                                        telemetry, up)
                               ELSE crashOutput("apply", input, continuityMode,
                                                SubSeq(applyWriteOrder, 1, done))
                     /\ UNCHANGED <<env, clock, repo, settings, artifacts, subChats, chats>>

Apply(input, up) == ApplyCall(input, up, Len(applyWriteOrder))

\* the process dies during an apply that missed the cache, after `done` of its
\* persistent writes
ApplyCrash(input, done) ==
    /\ done < Len(applyWriteOrder)
    /\ ApplyCall(input, TRUE, done)

(***************************************************************************)
(* Governor                                                                *)
(***************************************************************************)
When(cond, reason) == IF cond THEN <<reason>> ELSE <<>>

\* decideGovernor with each threshold compared by > where the code has >=
decideGovernorStrict(input) ==
    LET reasons ==
            When(input.turnsSinceSnapshot > SNAPSHOT_TURN_THRESHOLD, "turn-pressure")
         \o When(input.totalInjectedBytes > SNAPSHOT_BYTES_THRESHOLD, "context-pressure")
         \o When(input.changedFilesCount > SNAPSHOT_FILES_THRESHOLD, "scope-pressure")
         \o When(input.diffLines > SNAPSHOT_DIFF_THRESHOLD, "diff-pressure")
         \o When(input.elapsedSinceSnapshotMs > SNAPSHOT_ELAPSED_MS, "time-pressure")
        severeReasons ==
            When(input.turnsSinceSnapshot > REHYDRATE_TURN_THRESHOLD, "turn-pressure-high")
         \o When(input.totalInjectedBytes > REHYDRATE_BYTES_THRESHOLD, "context-pressure-high")
         \o When(input.changedFilesCount > REHYDRATE_FILES_THRESHOLD, "scope-pressure-high")
         \o When(input.diffLines > REHYDRATE_DIFF_THRESHOLD, "diff-pressure-high")
         \o When(input.elapsedSinceSnapshotMs > REHYDRATE_ELAPSED_MS, "time-pressure-high")
    IN  IF Len(severeReasons) >= 2 THEN [action |-> "rehydrate", reasons |-> severeReasons]
        ELSE IF Len(reasons) >= 2 THEN [action |-> "snapshot", reasons |-> reasons]
        ELSE [action |-> "ok", reasons |-> <<>>]

\* decideGovernor asking for exactly two reasons where the code asks for two or more
decideGovernorExactlyTwo(input) ==
    LET reasons ==
            When(input.turnsSinceSnapshot >= SNAPSHOT_TURN_THRESHOLD, "turn-pressure")
         \o When(input.totalInjectedBytes >= SNAPSHOT_BYTES_THRESHOLD, "context-pressure")
         \o When(input.changedFilesCount >= SNAPSHOT_FILES_THRESHOLD, "scope-pressure")
         \o When(input.diffLines >= SNAPSHOT_DIFF_THRESHOLD, "diff-pressure")
         \o When(input.elapsedSinceSnapshotMs >= SNAPSHOT_ELAPSED_MS, "time-pressure")
        severeReasons ==
            When(input.turnsSinceSnapshot >= REHYDRATE_TURN_THRESHOLD, "turn-pressure-high")
         \o When(input.totalInjectedBytes >= REHYDRATE_BYTES_THRESHOLD, "context-pressure-high")
         \o When(input.changedFilesCount >= REHYDRATE_FILES_THRESHOLD, "scope-pressure-high")
         \o When(input.diffLines >= REHYDRATE_DIFF_THRESHOLD, "diff-pressure-high")
         \o When(input.elapsedSinceSnapshotMs >= REHYDRATE_ELAPSED_MS, "time-pressure-high")
    IN  IF Len(severeReasons) = 2 THEN [action |-> "rehydrate", reasons |-> severeReasons]
        ELSE IF Len(reasons) = 2 THEN [action |-> "snapshot", reasons |-> reasons]
        ELSE [action |-> "ok", reasons |-> <<>>]

\* decideGovernor giving the reasons of both levels with a rehydrate
decideGovernorAllReasons(input) ==
    LET reasons ==
            When(input.turnsSinceSnapshot >= SNAPSHOT_TURN_THRESHOLD, "turn-pressure")
         \o When(input.totalInjectedBytes >= SNAPSHOT_BYTES_THRESHOLD, "context-pressure")
         \o When(input.changedFilesCount >= SNAPSHOT_FILES_THRESHOLD, "scope-pressure")
         \o When(input.diffLines >= SNAPSHOT_DIFF_THRESHOLD, "diff-pressure")
         \o When(input.elapsedSinceSnapshotMs >= SNAPSHOT_ELAPSED_MS, "time-pressure")
        severeReasons ==
            When(input.turnsSinceSnapshot >= REHYDRATE_TURN_THRESHOLD, "turn-pressure-high")
         \o When(input.totalInjectedBytes >= REHYDRATE_BYTES_THRESHOLD, "context-pressure-high")
         \o When(input.changedFilesCount >= REHYDRATE_FILES_THRESHOLD, "scope-pressure-high")
         \o When(input.diffLines >= REHYDRATE_DIFF_THRESHOLD, "diff-pressure-high")
         \o When(input.elapsedSinceSnapshotMs >= REHYDRATE_ELAPSED_MS, "time-pressure-high")
    IN  IF Len(severeReasons) >= 2
        THEN [action |-> "rehydrate", reasons |-> reasons \o severeReasons]
        ELSE IF Len(reasons) >= 2 THEN [action |-> "snapshot", reasons |-> reasons]
        ELSE [action |-> "ok", reasons |-> <<>>]

\* decideGovernor without the elapsed-time reasons
decideGovernorNoTime(input) ==
    LET reasons ==
            When(input.turnsSinceSnapshot >= SNAPSHOT_TURN_THRESHOLD, "turn-pressure")
         \o When(input.totalInjectedBytes >= SNAPSHOT_BYTES_THRESHOLD, "context-pressure")
         \o When(input.changedFilesCount >= SNAPSHOT_FILES_THRESHOLD, "scope-pressure")
         \o When(input.diffLines >= SNAPSHOT_DIFF_THRESHOLD, "diff-pressure")
        severeReasons ==
            When(input.turnsSinceSnapshot >= REHYDRATE_TURN_THRESHOLD, "turn-pressure-high")
         \o When(input.totalInjectedBytes >= REHYDRATE_BYTES_THRESHOLD, "context-pressure-high")
         \o When(input.changedFilesCount >= REHYDRATE_FILES_THRESHOLD, "scope-pressure-high")
         \o When(input.diffLines >= REHYDRATE_DIFF_THRESHOLD, "diff-pressure-high")
    IN  IF Len(severeReasons) >= 2 THEN [action |-> "rehydrate", reasons |-> severeReasons]
        ELSE IF Len(reasons) >= 2 THEN [action |-> "snapshot", reasons |-> reasons]
        ELSE [action |-> "ok", reasons |-> <<>>]

decideGovernor(input) ==
    LET reasons ==
            When(input.turnsSinceSnapshot >= SNAPSHOT_TURN_THRESHOLD, "turn-pressure")
         \o When(input.totalInjectedBytes >= SNAPSHOT_BYTES_THRESHOLD, "context-pressure")
         \o When(input.changedFilesCount >= SNAPSHOT_FILES_THRESHOLD, "scope-pressure")
         \o When(input.diffLines >= SNAPSHOT_DIFF_THRESHOLD, "diff-pressure")
         \o When(input.elapsedSinceSnapshotMs >= SNAPSHOT_ELAPSED_MS, "time-pressure")
        severeReasons ==
            When(input.turnsSinceSnapshot >= REHYDRATE_TURN_THRESHOLD, "turn-pressure-high")
         \o When(input.totalInjectedBytes >= REHYDRATE_BYTES_THRESHOLD, "context-pressure-high")
         \o When(input.changedFilesCount >= REHYDRATE_FILES_THRESHOLD, "scope-pressure-high")
         \o When(input.diffLines >= REHYDRATE_DIFF_THRESHOLD, "diff-pressure-high")
         \o When(input.elapsedSinceSnapshotMs >= REHYDRATE_ELAPSED_MS, "time-pressure-high")
    IN  IF Len(severeReasons) >= 2 THEN [action |-> "rehydrate", reasons |-> severeReasons]
        ELSE IF Len(reasons) >= 2 THEN [action |-> "snapshot", reasons |-> reasons]
        ELSE [action |-> "ok", reasons |-> <<>>]

\* the gating with a disabled rehydrate always turned into ok
effectiveActionNoDegrade(action, capabilities) ==
    IF action = "rehydrate" /\ ~capabilities.rehydrateEnabled THEN "ok"
    ELSE IF action = "snapshot" /\ ~capabilities.snapshotEnabled THEN "ok"
    ELSE action

\* the capability gating of recordRunOutcome
effectiveAction(action, capabilities) ==
    IF action = "rehydrate" /\ ~capabilities.rehydrateEnabled
    THEN (IF capabilities.snapshotEnabled THEN "snapshot" ELSE "ok")
    ELSE IF action = "snapshot" /\ ~capabilities.snapshotEnabled THEN "ok"
    ELSE action

\* the capabilities with both switches taken as set
getContinuityGovernorCapabilitiesAll(e) ==
    [snapshotEnabled |-> TRUE, rehydrateEnabled |-> TRUE]

getContinuityGovernorCapabilities(e) ==
    [snapshotEnabled |-> e.snapshotEnabled, rehydrateEnabled |-> e.rehydrateEnabled]

(***************************************************************************)
(* Event detector                                                          *)
(***************************************************************************)
DirectionWords ==
    {<<"i", "n", "s", "t", "e", "a", "d">>, <<"a", "l", "t", "e", "r", "n", "a", "t", "i", "v", "e", " ", "a", "p", "p", "r", "o", "a", "c", "h">>, <<"p", "i", "v", "o", "t">>}

\* the detector with each threshold compared by > where the code has >=
detectMeaningfulEventsStrict(repoState, diffLines, assistantResponse, wasError) ==
    LET responseLower == ToLower(assistantResponse)
        rejectedApproach ==
            wasError \/ \E w \in DirectionWords : Includes(responseLower, w)
        boundaryFiles ==
            SelectSeqIn(repoState.changedFiles,
                        {f \in {repoState.changedFiles[i] : i \in 1..Len(repoState.changedFiles)} :
                            \E prefix \in BOUNDARY_MODULE_PREFIXES : StartsWith(f, prefix)})
        adr == Len(boundaryFiles) > 0
        reasons ==
            When(diffLines > DEVLOG_DIFF_THRESHOLD, "diff>120")
         \o When(Len(repoState.changedFiles) > DEVLOG_FILE_THRESHOLD, "changed_files>6")
         \o When(adr, "boundary-modules-touched")
         \o When(wasError, "run-error")
    IN  [devlog |-> Len(reasons) > 0, adr |-> adr, rejectedApproach |-> rejectedApproach,
         rejectedReason |-> IF wasError THEN "run-error" ELSE "direction-change",
         reasons |-> reasons, boundaryFiles |-> boundaryFiles,
         eventFingerprint |->
            sha(<<repoState.headCommit, repoState.changedFilesHash, diffLines, wasError,
                  Take(responseLower, 160)>>)]

detectMeaningfulEvents(repoState, diffLines, assistantResponse, wasError) ==
    LET responseLower == ToLower(assistantResponse)
        rejectedApproach ==
            wasError \/ \E w \in DirectionWords : Includes(responseLower, w)
        boundaryFiles ==
            SelectSeqIn(repoState.changedFiles,
                        {f \in {repoState.changedFiles[i] : i \in 1..Len(repoState.changedFiles)} :
                            \E prefix \in BOUNDARY_MODULE_PREFIXES : StartsWith(f, prefix)})
        adr == Len(boundaryFiles) > 0
        reasons ==
            When(diffLines >= DEVLOG_DIFF_THRESHOLD, "diff>120")
         \o When(Len(repoState.changedFiles) >= DEVLOG_FILE_THRESHOLD, "changed_files>6")
         \o When(adr, "boundary-modules-touched")
         \o When(wasError, "run-error")
    IN  [devlog |-> Len(reasons) > 0, adr |-> adr, rejectedApproach |-> rejectedApproach,
         rejectedReason |-> IF wasError THEN "run-error" ELSE "direction-change",
         reasons |-> reasons, boundaryFiles |-> boundaryFiles,
         eventFingerprint |->
            sha(<<repoState.headCommit, repoState.changedFilesHash, diffLines, wasError,
                  Take(responseLower, 160)>>)]

(***************************************************************************)
(* Safeguard gate                                                          *)
(***************************************************************************)
fallbackSettings(e) ==
    [artifactPolicy |-> e.artifactPolicy, autoCommitToMemoryBranch |-> FALSE,
     tokenMode |-> e.tokenMode, memoryBranch |-> e.memoryBranch]

\* what getSafeguardSettings returns
getSafeguardSettings(row, e, up) ==
    IF ~up \/ row = NoRow THEN fallbackSettings(e)
    ELSE [artifactPolicy |->
              IF row.artifactPolicy = "auto-write-memory-branch"
              THEN "auto-write-memory-branch" ELSE "auto-write-manual-commit",
          autoCommitToMemoryBranch |-> row.autoCommitToMemoryBranch,
          tokenMode |-> IF row.tokenMode \in TokenModes THEN row.tokenMode ELSE e.tokenMode,
          memoryBranch |-> IF row.memoryBranch # "" THEN row.memoryBranch ELSE e.memoryBranch]

\* the row getSafeguardSettings leaves: it inserts the defaults when none is there
settingsAfterRead(row, e, now, up) ==
    IF up /\ row = NoRow
    THEN [artifactPolicy |-> e.artifactPolicy, autoCommitToMemoryBranch |-> FALSE,
          tokenMode |-> e.tokenMode, memoryBranch |-> e.memoryBranch, updatedAt |-> now]
    ELSE row

\* the policy without the branch guard
assessAutoCommitPolicyNoGuard(r, s) ==
    LET requested ==
            s.artifactPolicy = "auto-write-memory-branch" /\ s.autoCommitToMemoryBranch
    IN  [requested |-> requested, allowed |-> requested, currentBranch |-> currentBranch(r)]

assessAutoCommitPolicy(r, s) ==
    LET requested ==
            s.artifactPolicy = "auto-write-memory-branch" /\ s.autoCommitToMemoryBranch
    IN  IF ~requested
        THEN [requested |-> FALSE, allowed |-> FALSE, currentBranch |-> currentBranch(r)]
        ELSE [requested |-> TRUE, allowed |-> currentBranch(r) = s.memoryBranch,
              currentBranch |-> currentBranch(r)]

(***************************************************************************)
(* Artifact writer                                                         *)
(***************************************************************************)
\* the row sets a query "ORDER BY created_at DESC LIMIT limit" over the rows
\* with indices idx may return: rows of equal created_at come in any order
newestWindows(table, idx, limit) ==
    IF Cardinality(idx) <= limit THEN {idx}
    ELSE {W \in SUBSET idx :
            /\ Cardinality(W) = limit
            /\ \A i \in W, j \in idx \ W : table[j].createdAt <= table[i].createdAt}

\* the writer without the look-up of the fingerprint
writeArtifactAlways(table, input, now, up) ==
    IF ~up THEN {table}
    ELSE {Append(table, [subChatId |-> input.subChatId, type |-> input.type,
                         content |-> input.content, status |-> "draft",
                         eventFingerprint |-> input.eventFingerprint,
                         createdBy |-> "continuity-service",
                         createdAt |-> now, updatedAt |-> now])}

\* the tables writeArtifactIfNew may leave
writeArtifactIfNew(table, input, now, up) ==
    IF ~up THEN {table}
    ELSE LET idx == {i \in 1..Len(table) :
                        table[i].subChatId = input.subChatId /\ table[i].type = input.type}
         IN  {IF \E i \in W : table[i].eventFingerprint = input.eventFingerprint
              THEN table
              ELSE Append(table, [subChatId |-> input.subChatId, type |-> input.type,
                                  content |-> input.content, status |-> "draft",
                                  eventFingerprint |-> input.eventFingerprint,
                                  createdBy |-> "continuity-service",
                                  createdAt |-> now, updatedAt |-> now])
                : W \in newestWindows(table, idx, ARTIFACT_DEDUP_LIMIT)}

artifactInput(subChatId, type, eventFingerprint, firstLine) ==
    [subChatId |-> subChatId, type |-> type, eventFingerprint |-> eventFingerprint,
     content |-> [firstLine |-> firstLine]]

\* the tables after an optional write
writeWhen(cond, table, input, now, up) ==
    IF cond THEN writeArtifactIfNew(table, input, now, up) ELSE {table}

\* the first line of each artifact's content
ProviderLine(provider) ==
    IF provider = "claude" THEN <<"p", "r", "o", "v", "i", "d", "e", "r", ":", " ", "c", "l", "a", "u", "d", "e">>
    ELSE <<"p", "r", "o", "v", "i", "d", "e", "r", ":", " ", "c", "o", "d", "e", "x">>

AdrLine == <<"s", "t", "a", "t", "u", "s", ":", " ", "d", "r", "a", "f", "t">>

RejectedLine(reason) ==
    IF reason = "run-error" THEN <<"r", "e", "a", "s", "o", "n", ":", " ", "r", "u", "n", "-", "e", "r", "r", "o", "r">>
    ELSE <<"r", "e", "a", "s", "o", "n", ":", " ", "d", "i", "r", "e", "c", "t", "i", "o", "n", "-", "c", "h", "a", "n", "g", "e">>

GovernorLine(action) ==
    IF action = "snapshot" THEN <<"g", "o", "v", "e", "r", "n", "o", "r", "_", "a", "c", "t", "i", "o", "n", ":", " ", "s", "n", "a", "p", "s", "h", "o", "t">>
    ELSE <<"g", "o", "v", "e", "r", "n", "o", "r", "_", "a", "c", "t", "i", "o", "n", ":", " ", "r", "e", "h", "y", "d", "r", "a", "t", "e">>

BlockedLine == <<"s", "a", "f", "e", "g", "u", "a", "r", "d", ":", " ", "a", "u", "t", "o", " ", "c", "o", "m", "m", "i", "t", " ", "b", "l", "o", "c", "k", "e", "d">>

(***************************************************************************)
(* Session counters                                                        *)
(***************************************************************************)
getPersistedState(row, up) ==
    IF up /\ row # NoRow
    THEN [turnsSinceSnapshot |-> row.turnsSinceSnapshot,
          totalInjectedBytes |-> row.totalInjectedBytes,
          lastSnapshotAt |-> row.lastSnapshotAt]
    ELSE [turnsSinceSnapshot |-> 0, totalInjectedBytes |-> 0, lastSnapshotAt |-> Null]

\* the upsert of persistGovernorState
persistGovernorStateRow(row, input, now) ==
    [subChatId |-> input.subChatId,
     lastChangedFilesHash |-> input.lastChangedFilesHash,
     turnsSinceSnapshot |-> input.turnsSinceSnapshot,
     totalInjectedBytes |-> input.totalInjectedBytes,
     lastSnapshotAt |-> input.lastSnapshotAt,
     updatedAt |-> now]

\* the counters with the byte total kept across a reset
nextCountersKeepBytes(action, nextTurns, nextInjectedBytes, lastSnapshotAt, now) ==
    [turnsSinceSnapshot |-> IF action = "ok" THEN nextTurns ELSE 0,
     totalInjectedBytes |-> nextInjectedBytes,
     lastSnapshotAt |-> IF action = "ok" THEN lastSnapshotAt ELSE Some(now)]

\* the counters recordRunOutcome persists for an effective action
nextCounters(action, nextTurns, nextInjectedBytes, lastSnapshotAt, now) ==
    [turnsSinceSnapshot |-> IF action = "ok" THEN nextTurns ELSE 0,
     totalInjectedBytes |-> IF action = "ok" THEN nextInjectedBytes ELSE 0,
     lastSnapshotAt |-> IF action = "ok" THEN lastSnapshotAt ELSE Some(now)]

\* input.injectedBytes || 0, then Math.max(.., 0); Null is an omitted field
injectedOrZero(injectedBytes) ==
    IF injectedBytes = Null THEN 0 ELSE Max(injectedBytes[1], 0)

(***************************************************************************)
(* Rehydrate                                                               *)
(***************************************************************************)
\* clampByBytes of a character-level (ASCII) string
RECURSIVE clampChars(_, _)
clampChars(s, maxBytes) ==
    IF Len(s) > maxBytes /\ Len(s) > 0
    THEN clampChars(SubSeq(s, 1, Shrink(Len(s))), maxBytes)
    ELSE s

\* the indices of W, newest first (later insertions first among equal times)
RECURSIVE newestFirst(_, _)
newestFirst(table, W) ==
    IF W = {} THEN <<>>
    ELSE LET top == CHOOSE i \in W : \A j \in W :
                        \/ table[j].createdAt < table[i].createdAt
                        \/ (table[j].createdAt = table[i].createdAt /\ j <= i)
         IN  <<top>> \o newestFirst(table, W \ {top})

rehydrateMessage(row, table, W, input) ==
    LET order == newestFirst(table, W)
    IN  [kind |-> "rehydrate", role |-> "assistant", mode |-> row.mode,
         reasons |-> input.reasons,
         carry |-> [i \in 1..Len(order) |->
                      <<table[order[i]].type,
                        clampChars(table[order[i]].content.firstLine, 180)>>],
         prompt |-> clampChars(input.prompt, 600)]

\* the rehydrate appending its message to the stored list and keeping the
\* provider handles
executeRehydrateAppend(rows, table, input, now, up) ==
    IF ~up \/ rows[input.subChatId] = NoRow THEN {rows}
    ELSE LET idx == {i \in 1..Len(table) : table[i].subChatId = input.subChatId}
         IN  {[rows EXCEPT ![input.subChatId] =
                  [@ EXCEPT !.messages = Append(@, rehydrateMessage(rows[input.subChatId],
                                                                    table, W, input)),
                            !.updatedAt = now]]
                : W \in newestWindows(table, idx, 6)}

\* the sub_chats tables executeRehydrate may leave
executeRehydrate(rows, table, input, now, up) ==
    IF ~up \/ rows[input.subChatId] = NoRow THEN {rows}
    ELSE LET idx == {i \in 1..Len(table) : table[i].subChatId = input.subChatId}
         IN  {[rows EXCEPT ![input.subChatId] =
                  [@ EXCEPT !.sessionId = Null, !.streamId = Null,
                            !.messages = <<rehydrateMessage(rows[input.subChatId],
                                                            table, W, input)>>,
                            !.updatedAt = now]]
                : W \in newestWindows(table, idx, 6)}

(***************************************************************************)
(* ContinuityService.recordRunOutcome                                      *)
(***************************************************************************)
governorAction(provider, mode, action, reasonsCount) ==
    [event |-> "governor_action", provider |-> provider, mode |-> mode,
     action |-> action, reasonsCount |-> reasonsCount]

\* the event reporting every requested auto-commit as allowed
safeguardEventAllowed(policy, memoryBranch) ==
    [event |-> "safeguard", action |-> "auto-commit-allowed",
     branch |-> policy.currentBranch, memoryBranch |-> memoryBranch]

safeguardEvent(policy, memoryBranch) ==
    [event |-> "safeguard",
     action |-> IF policy.allowed THEN "auto-commit-allowed" ELSE "auto-commit-blocked",
     branch |-> policy.currentBranch, memoryBranch |-> memoryBranch]

\* the mode test taking passive for active
isActiveOrPassive(continuityMode) == continuityMode \in {"active", "passive"}

\* continuityMode === "active", the test before every write of recordRunOutcome
isActive(continuityMode) == continuityMode = "active"

\* the output of a call that a failing store ends in an error
recordOutputRejecting(input, continuityMode, action, reasons, detail, telemetry, now, up) ==
    IF up
    THEN [op |-> "record", continuityMode |-> continuityMode, subChatId |-> input.subChatId,
          input |-> input, up |-> up, now |-> now, action |-> action, reasons |-> reasons,
          detail |-> detail, telemetry |-> telemetry]
    ELSE crashOutput("record", input, continuityMode, <<>>)

recordOutput(input, continuityMode, action, reasons, detail, telemetry, now, up) ==
    [op |-> "record", continuityMode |-> continuityMode, subChatId |-> input.subChatId,
     input |-> input, up |-> up, now |-> now, action |-> action, reasons |-> reasons,
     detail |-> detail, telemetry |-> telemetry]

\* the tables recordRunOutcome writes, as one value, with the events the call
\* has emitted so far
persistentTables ==
    [settings |-> settings, artifacts |-> artifacts, stateRows |-> stateRows,
     subChats |-> subChats, chats |-> chats, telemetry |-> <<>>]

\* the order of its side effects with rehydrate moved to the front
recordWriteOrderRehydrateFirst ==
    <<"settings-row", "rehydrate", "event-devlog", "event-adr", "event-rejected",
      "session-state", "governor-devlog", "governor-event", "safeguard-event",
      "block-devlog">>

\* the side effects of recordRunOutcome, the persistent writes and the
\* emitted events, in the order of its statements
recordWriteOrder ==
    <<"settings-row", "event-devlog", "event-adr", "event-rejected", "session-state",
      "governor-devlog", "governor-event", "safeguard-event", "block-devlog",
      "rehydrate">>

\* one write of recordRunOutcome applied to the tables db; ctx holds the
\* constants the call computed before its first write
recordWrite(write, db, ctx, up) ==
    LET sub == ctx.input.subChatId
        wrote(tables) == {[db EXCEPT !.artifacts = a] : a \in tables}
    IN  CASE write = "settings-row" ->
                {[db EXCEPT !.settings =
                    IF ctx.active THEN settingsAfterRead(db.settings, ctx.env, ctx.now, up)
                    ELSE db.settings]}
          [] write = "event-devlog" ->
                wrote(writeWhen(ctx.active /\ ctx.meaningful.devlog, db.artifacts,
                        artifactInput(sub, "devlog", ctx.meaningful.eventFingerprint,
                                      ProviderLine(ctx.input.provider)), ctx.now, up))
          [] write = "event-adr" ->
                wrote(writeWhen(ctx.active /\ ctx.meaningful.adr, db.artifacts,
                        artifactInput(sub, "adr",
                                      <<ctx.meaningful.eventFingerprint, "adr">>, AdrLine),
                        ctx.now, up))
          [] write = "event-rejected" ->
                wrote(writeWhen(ctx.active /\ ctx.meaningful.rejectedApproach, db.artifacts,
                        artifactInput(sub, "rejected-approach",
                                      <<ctx.meaningful.eventFingerprint, "rejected">>,
                                      RejectedLine(ctx.meaningful.rejectedReason)),
                        ctx.now, up))
          [] write = "session-state" ->
                {[db EXCEPT !.stateRows =
                    IF up
                    THEN [db.stateRows EXCEPT ![sub] =
                            persistGovernorStateRow(db.stateRows[sub],
                                [subChatId |-> sub,
                                 lastChangedFilesHash |-> ctx.repoState.changedFilesHash,
                                 turnsSinceSnapshot |-> ctx.counters.turnsSinceSnapshot,
                                 totalInjectedBytes |-> ctx.counters.totalInjectedBytes,
                                 lastSnapshotAt |-> ctx.counters.lastSnapshotAt], ctx.now)]
                    ELSE db.stateRows]}
          [] write = "governor-devlog" ->
                wrote(writeWhen(ctx.active /\ ctx.action # "ok", db.artifacts,
                        artifactInput(sub, "devlog", <<sub, ctx.now, ctx.action>>,
                                      GovernorLine(ctx.action)), ctx.now, up))
          [] write = "governor-event" ->
                {[db EXCEPT !.telemetry =
                    Append(db.telemetry,
                           governorAction(ctx.input.provider, ctx.input.mode, ctx.action,
                                          Len(ctx.reasons)))]}
          [] write = "safeguard-event" ->
                {[db EXCEPT !.telemetry =
                    IF ctx.active /\ ctx.autoCommitPolicy.requested
                    THEN Append(db.telemetry,
                                safeguardEvent(ctx.autoCommitPolicy,
                                               ctx.safeguardSettings.memoryBranch))
                    ELSE db.telemetry]}
          [] write = "block-devlog" ->
                wrote(writeWhen(ctx.blocked, db.artifacts,
                        artifactInput(sub, "devlog",
                                      <<ctx.repoState.headCommit, "auto-commit-blocked",
                                        ctx.autoCommitPolicy.currentBranch>>, BlockedLine),
                        ctx.now, up))
          [] write = "rehydrate" ->
                IF ctx.rehydrates
                THEN {[db EXCEPT !.subChats = sc,
                                 !.chats = IF up /\ db.subChats[sub] # NoRow
                                           THEN [db.chats EXCEPT
                                                   ![db.subChats[sub].chatId] = ctx.now]
                                           ELSE db.chats]
                        : sc \in executeRehydrate(db.subChats, db.artifacts,
                                    [subChatId |-> sub, prompt |-> ctx.input.prompt,
                                     reasons |-> ctx.reasons], ctx.now, up)}
                ELSE {db}

\* the runs of the side effects in order: each element is a side effect and
\* the tables and events after it
RECURSIVE recordRun(_, _, _, _)
recordRun(order, db, ctx, up) ==
    IF order = <<>> THEN {<<>>}
    ELSE UNION {{<<[write |-> Head(order), db |-> d]>> \o rest
                    : rest \in recordRun(Tail(order), d, ctx, up)}
                : d \in recordWrite(Head(order), db, ctx, up)}

\* the side effects of a run that changed a table or emitted an event; a
\* write of the values a row already holds is not among them
RECURSIVE effectsOf(_, _)
effectsOf(run, db) ==
    IF run = <<>> THEN <<>>
    ELSE (IF run[1].db # db THEN <<run[1].write>> ELSE <<>>)
            \o effectsOf(Tail(run), run[1].db)

\* recordRunOutcome from the branch probe on, given what it has read before:
\* the side effects from the `first` to the `done`-th, the in-memory state
\* and the result.  It says nothing about the calls in flight.
RecordSteps(input, up, done, first, now, repoState, diffLines, current, safeguardSettings) ==
    LET continuityMode == getContinuityMode(env)
        active == isActive(continuityMode)
        r == repo[input.root]
    IN  \E autoCommitPolicy \in
                {IF active THEN assessAutoCommitPolicy(r, safeguardSettings) ELSE NoRow} :
        \E meaningful \in {detectMeaningfulEvents(repoState, diffLines,
                                                  input.assistantResponse, input.wasError)} :
        LET nextTurns == current.turnsSinceSnapshot + 1
            nextInjectedBytes ==
                current.totalInjectedBytes + injectedOrZero(input.injectedBytes)
            governorInput ==
                [turnsSinceSnapshot |-> nextTurns, totalInjectedBytes |-> nextInjectedBytes,
                 changedFilesCount |-> Len(repoState.changedFiles), diffLines |-> diffLines,
                 elapsedSinceSnapshotMs |->
                    IF current.lastSnapshotAt # Null THEN now - current.lastSnapshotAt[1]
                    ELSE REHYDRATE_ELAPSED_MS + 1]
        IN
        \E governorDecision \in {decideGovernor(governorInput)} :
        LET capabilities == getContinuityGovernorCapabilities(env)
            effectiveGovernorAction == effectiveAction(governorDecision.action, capabilities)
            counters == nextCounters(effectiveGovernorAction, nextTurns, nextInjectedBytes,
                                     current.lastSnapshotAt, now)
            blocked == active /\ autoCommitPolicy.requested /\ ~autoCommitPolicy.allowed
            rehydrates == active /\ effectiveGovernorAction = "rehydrate"
            detail == [current |-> current, governorInput |-> governorInput,
                       governorDecision |-> governorDecision, capabilities |-> capabilities,
                       meaningful |-> [devlog |-> meaningful.devlog, adr |-> meaningful.adr,
                                       rejectedApproach |-> meaningful.rejectedApproach,
                                       eventFingerprint |-> meaningful.eventFingerprint],
                       autoCommitPolicy |-> autoCommitPolicy, effects |-> <<>>]
            ctx == [input |-> input, now |-> now, env |-> env, active |-> active,
                    repoState |-> repoState, meaningful |-> meaningful,
                    action |-> effectiveGovernorAction,
                    reasons |-> governorDecision.reasons, counters |-> counters,
                    safeguardSettings |-> safeguardSettings,
                    autoCommitPolicy |-> autoCommitPolicy, blocked |-> blocked,
                    rehydrates |-> rehydrates]
        IN   /\ \E run \in recordRun(SubSeq(recordWriteOrder, first, done), persistentTables,
                                      ctx, up) :
                \E last \in {IF run = <<>> THEN persistentTables ELSE run[Len(run)].db} :
                    /\ settings' = last.settings
                    /\ artifacts' = last.artifacts
                    /\ stateRows' = last.stateRows
                    /\ subChats' = last.subChats
                    /\ chats' = last.chats
                    /\ ret' = IF done = Len(recordWriteOrder)
                              THEN recordOutput(input, continuityMode,
                                        effectiveGovernorAction, governorDecision.reasons,
                                        [detail EXCEPT
                                           !.effects = effectsOf(run, persistentTables)],
                                        last.telemetry, now, up)
                              ELSE crashOutput("record", input, continuityMode,
                                               SubSeq(recordWriteOrder, 1, done))
             /\ IF done = Len(recordWriteOrder)
                THEN /\ subChatState' =
                            [subChatState EXCEPT
                                ![input.subChatId] = repoState.changedFilesHash]
                     /\ UNCHANGED <<contextPackCache, protocolState, searchCache>>
                ELSE /\ contextPackCache' = EmptyMap
                     /\ subChatState' = [s \in SubChatIds |-> Null]
                     /\ protocolState' = [s \in SubChatIds |-> Null]
                     /\ searchCache' = EmptyMap
             /\ UNCHANGED <<env, clock, repo, packRows, searchRows>>

\* recordRunOutcome with the first `done` of its side effects performed: all of
\* them when the call returns, fewer when the process dies during the call
RecordCall(input, up, done) ==
    LET continuityMode == getContinuityMode(env)
        active == isActive(continuityMode)
        r == repo[input.root]
        now == clock
    IN  IF continuityMode = "off"
        THEN /\ ret' = recordOutput(input, continuityMode, "ok", <<>>, NoRow, <<>>, now, up)
             /\ UNCHANGED <<env, clock, repo, persistent, inMemory>>
        ELSE
        \* each const of the code is bound once
        \E repoState \in {getRepoState(r)} :
        \E diffLines \in {getDiffStats(r)} :
        \E current \in {getPersistedState(stateRows[input.subChatId], up)} :
        \E safeguardSettings \in
                {IF active THEN getSafeguardSettings(settings, env, up) ELSE NoRow} :
            /\ RecordSteps(input, up, done, 1, now, repoState, diffLines, current,
                           safeguardSettings)
            /\ calls' = IF done = Len(recordWriteOrder) THEN calls ELSE NoCalls

RecordRunOutcome(input, up) == RecordCall(input, up, Len(recordWriteOrder))

\* the process dies during a recordRunOutcome, after `done` of its side effects
RecordCrash(input, done) ==
    /\ done < Len(recordWriteOrder)
    /\ getContinuityMode(env) # "off"
    /\ RecordCall(input, TRUE, done)

(***************************************************************************)
(* The settings router (trpc continuitySettings.update)                    *)
(***************************************************************************)
ensureSettingsRow(row, e, now) ==
    IF row # NoRow THEN row
    ELSE [artifactPolicy |-> e.artifactPolicy, autoCommitToMemoryBranch |-> FALSE,
          tokenMode |-> e.tokenMode, memoryBranch |-> e.memoryBranch, updatedAt |-> now]

\* input fields are Null when omitted
Coalesce(a, b) == IF a # Null THEN a[1] ELSE b

\* the model's branch names are non-empty and carry no outer whitespace, so
\* the trim() and the `|| default` of the code leave them as they are
updateSettingsRow(row, e, input, now) ==
    LET current == ensureSettingsRow(row, e, now)
    IN  [artifactPolicy |-> Coalesce(input.artifactPolicy, current.artifactPolicy),
         autoCommitToMemoryBranch |->
            Coalesce(input.autoCommitToMemoryBranch, current.autoCommitToMemoryBranch),
         tokenMode |-> Coalesce(input.tokenMode, current.tokenMode),
         memoryBranch |-> Coalesce(input.memoryBranch, current.memoryBranch),
         updatedAt |-> now]

UpdateSettings(input) ==
    /\ settings' = updateSettingsRow(settings, env, input, clock)
    /\ settings' # settings
    /\ ret' = [op |-> "env"]
    /\ UNCHANGED <<env, clock, repo, packRows, stateRows, artifacts, subChats, chats,
                   searchRows, inMemory>>

(***************************************************************************)
(* The environment                                                         *)
(***************************************************************************)
\* time passes
Tick ==
    /\ clock < MaxTicks * SNAPSHOT_ELAPSED_MS
    /\ clock' = clock + SNAPSHOT_ELAPSED_MS
    /\ ret' = [op |-> "env"]
    /\ UNCHANGED <<env, repo, persistent, inMemory>>

\* the working tree, HEAD or the files under a root change
RepoChange(root, r) ==
    /\ repo[root] # r
    /\ repo' = [repo EXCEPT ![root] = r]
    /\ ret' = [op |-> "env"]
    /\ UNCHANGED <<env, clock, persistent, inMemory>>

\* the dispatcher stores a message of the conversation
AppendMessage(subChatId, m) ==
    /\ subChats[subChatId] # NoRow
    /\ Len(subChats[subChatId].messages) < MaxMessages
    /\ subChats' = [subChats EXCEPT ![subChatId].messages = Append(@, m)]
    /\ ret' = [op |-> "env"]
    /\ UNCHANGED <<env, clock, repo, settings, packRows, stateRows, artifacts, chats,
                   searchRows, inMemory>>

\* time passes between two calls of the service
Elapse(maxTicks) ==
    /\ clock < maxTicks * SNAPSHOT_ELAPSED_MS
    /\ clock' = clock + SNAPSHOT_ELAPSED_MS
    /\ UNCHANGED <<env, repo, persistent, inMemory, ret>>

\* the sub-chat is deleted; its state row and artifacts stay (their removal
\* depends on the connection's foreign-key setting, which is not part of the
\* service)
DeleteSubChat(subChatId) ==
    /\ subChats[subChatId] # NoRow
    /\ subChats' = [subChats EXCEPT ![subChatId] = NoRow]
    /\ ret' = [op |-> "env"]
    /\ UNCHANGED <<env, clock, repo, settings, packRows, stateRows, artifacts, chats,
                   searchRows, inMemory>>

\* the process restarts under environment e: the in-memory tiers start empty
Restart(e) ==
    /\ contextPackCache # EmptyMap \/ searchCache # EmptyMap \/ e # env
    /\ env' = e
    /\ contextPackCache' = EmptyMap
    /\ subChatState' = [s \in SubChatIds |-> Null]
    /\ protocolState' = [s \in SubChatIds |-> Null]
    /\ searchCache' = EmptyMap
    /\ calls' = NoCalls
    /\ ret' = [op |-> "env"]
    /\ UNCHANGED <<clock, repo, persistent>>

Env(continuityMode, snapshotEnabled, rehydrateEnabled, tokenMode) ==
    [continuityMode |-> continuityMode, snapshotEnabled |-> snapshotEnabled,
     rehydrateEnabled |-> rehydrateEnabled, tokenMode |-> tokenMode,
     artifactPolicy |-> "auto-write-manual-commit", memoryBranch |-> DefaultMemoryBranch]

\* the state after construction, under environment e with repository state r
InitWith(e, r) ==
    /\ env = e
    /\ clock = 0
    /\ repo = [root \in Roots |-> r]
    /\ settings = NoRow
    /\ packRows = EmptyMap
    /\ stateRows = [s \in SubChatIds |-> NoRow]
    /\ artifacts = <<>>
    /\ subChats = [s \in SubChatIds |->
                      [chatId |-> ChatOf(s), mode |-> "agent", messages |-> <<>>,
                       sessionId |-> Some("session"), streamId |-> Null, updatedAt |-> 0]]
    /\ chats = [c \in {ChatOf(s) : s \in SubChatIds} |-> 0]
    /\ contextPackCache = EmptyMap
    /\ subChatState = [s \in SubChatIds |-> Null]
    /\ protocolState = [s \in SubChatIds |-> Null]
    /\ searchCache = EmptyMap
    /\ searchRows = EmptyMap
    /\ calls = NoCalls
    /\ ret = [op |-> "init"]

(***************************************************************************)
(* Spec: one sub-chat's turns against a working store, while the           *)
(* repository, the token mode and the clock change.  The exploration stops *)
(* where a table outgrows its bound.                                       *)
(***************************************************************************)
SpecEnvs ==
    {Env("off", TRUE, FALSE, "normal"),
     Env("passive", TRUE, FALSE, "normal"),
     Env("active", TRUE, FALSE, "normal"), Env("active", TRUE, TRUE, "normal")}

SpecRepos == {RepoSmall, RepoLarge}

SpecApplyInputs ==
    {[subChatId |-> "s1", root |-> root, prompt |-> c[1], mode |-> c[2], provider |-> c[3]] :
        root \in Roots,
        c \in {<<PromptRefactor, "agent", "claude">>, <<PromptFix, "plan", "codex">>}}

SpecRecordInputs ==
    {[subChatId |-> "s1", root |-> root, provider |-> "claude", mode |-> "agent",
      prompt |-> PromptRefactor, assistantResponse |-> c[1], injectedBytes |-> c[2],
      wasError |-> c[3]] :
        root \in Roots,
        c \in {<<ResponseDone, Null, FALSE>>, <<ResponsePivot, Some(-5), FALSE>>,
               <<ResponseDone, Some(SNAPSHOT_BYTES_THRESHOLD), TRUE>>}}

SpecSettingsInputs ==
    {[artifactPolicy |-> Null, autoCommitToMemoryBranch |-> Null, tokenMode |-> Some("low"),
      memoryBranch |-> Null]}

ChatMessages ==
    {[kind |-> "chat", role |-> "assistant",
      lines |-> <<<<"1", " ", "t", "e", "s", "t", " ", "F", "A", "I", "L", "E", "D">>, <<"o", "k">>>>]}

\* the keys a pack is stored under, in either tier
storedKeys == DOMAIN contextPackCache \cup DOMAIN packRows

Bounded(maxPacks, maxArtifacts, maxTurns) ==
    /\ Cardinality(storedKeys) <= maxPacks
    /\ Len(artifacts) <= maxArtifacts
    /\ \A s \in SubChatIds :
          stateRows[s] # NoRow => stateRows[s].turnsSinceSnapshot <= maxTurns

SpecBounded == Bounded(MaxPacks, MaxArtifacts, MaxTurns)

Init == \E e \in SpecEnvs : InitWith(e, RepoSmall)

Next ==
    \/ \E input \in SpecApplyInputs : Apply(input, TRUE) /\ SpecBounded'
    \/ \E input \in SpecRecordInputs : RecordRunOutcome(input, TRUE) /\ SpecBounded'
    \/ \E input \in SpecSettingsInputs : UpdateSettings(input)
    \/ Tick
    \/ \E root \in Roots, r \in SpecRepos : RepoChange(root, r)

Spec == Init /\ [][Next]_vars

\* the counters a call finds: those of the row, or zeros and no snapshot time
countersOf(row) ==
    IF row = NoRow
    THEN [turnsSinceSnapshot |-> 0, totalInjectedBytes |-> 0, lastSnapshotAt |-> Null]
    ELSE [turnsSinceSnapshot |-> row.turnsSinceSnapshot,
          totalInjectedBytes |-> row.totalInjectedBytes,
          lastSnapshotAt |-> row.lastSnapshotAt]

\* C1: when continuity_mode is off, apply returns the input prompt unchanged
\* with cache_hit false, injected_bytes 0 and reused_percent 100,
\* record_run_outcome returns action ok with no reasons, and neither call
\* writes the pack cache, the session state, the artifacts, the settings,
\* the in-memory protocol state or the session message log.
C1_OffIsInert ==
    [][(ret'.op \in {"apply", "record"} /\ env.continuityMode = "off") =>
          /\ UNCHANGED <<persistent, inMemory>>
          /\ ret'.op = "apply" =>
                /\ ret'.prompt = AsText("PROMPT", ret'.input.prompt)
                /\ ret'.cacheHit = FALSE
                /\ ret'.injectedBytes = 0
                /\ ret'.reusedPercent = 100
          /\ ret'.op = "record" =>
                /\ ret'.action = "ok"
                /\ ret'.reasons = <<>>]_vars

\* an apply in off mode over the large repository, a settings row being stored
C1_Witness ==
    /\ ret.op = "apply"
    /\ env.continuityMode = "off"
    /\ settings # NoRow
    /\ repo[ret.input.root] = RepoLarge
    /\ ret.prompt = AsText("PROMPT", ret.input.prompt)

\* C2: in passive mode every apply, hit or miss, returns the input prompt
\* exactly; on a miss the pack-cache row and the session-state row are
\* written all the same, and pack metrics are emitted with cache_hit false.
C2_PassiveApply ==
    [][(ret'.op = "apply" /\ env.continuityMode = "passive") =>
          /\ ret'.prompt = AsText("PROMPT", ret'.input.prompt)
          /\ ~ret'.cacheHit =>
                /\ ret'.cacheKey \in DOMAIN packRows' \ DOMAIN packRows
                /\ packRows'[ret'.cacheKey].pack = ret'.pack
                /\ ret'.pack # <<>>
                /\ stateRows'[ret'.subChatId] # NoRow
                /\ stateRows'[ret'.subChatId].updatedAt = clock
                /\ stateRows'[ret'.subChatId].lastChangedFilesHash
                      = getRepoState(repo[ret'.input.root]).changedFilesHash
                /\ \E i \in 1..Len(ret'.telemetry) :
                      /\ ret'.telemetry[i].event = "pack_metrics"
                      /\ ret'.telemetry[i].cacheHit = FALSE]_vars

\* a passive miss over the large repository: the pack is stored, the prompt
\* comes back as it went in
C2_Witness ==
    /\ ret.op = "apply"
    /\ env.continuityMode = "passive"
    /\ ~ret.cacheHit
    /\ repo[ret.input.root] = RepoLarge
    /\ ret.cacheKey \in DOMAIN packRows
    /\ ByteLength(packRows[ret.cacheKey].pack) > ByteLength(ret.prompt)
    /\ ret.prompt = AsText("PROMPT", ret.input.prompt)

\* C3: in passive mode record_run_outcome still computes the governor
\* decision and persists the session counters, reset on a non-ok action, but
\* no passive call changes the artifact table, the settings table or the
\* session message log.
C3_PassiveRecord ==
    [][(ret'.op \in {"apply", "record"} /\ env.continuityMode = "passive") =>
          /\ UNCHANGED <<artifacts, settings, subChats>>
          /\ ret'.op = "record" =>
                LET before == countersOf(stateRows[ret'.subChatId])
                    after == stateRows'[ret'.subChatId]
                    r == repo[ret'.input.root]
                    decision ==
                        decideGovernor(
                            [turnsSinceSnapshot |-> before.turnsSinceSnapshot + 1,
                             totalInjectedBytes |->
                                before.totalInjectedBytes
                                    + injectedOrZero(ret'.input.injectedBytes),
                             changedFilesCount |-> Len(getRepoState(r).changedFiles),
                             diffLines |-> getDiffStats(r),
                             elapsedSinceSnapshotMs |->
                                IF before.lastSnapshotAt = Null
                                THEN REHYDRATE_ELAPSED_MS + 1
                                ELSE clock - before.lastSnapshotAt[1]])
                IN  /\ ret'.reasons = decision.reasons
                    /\ ret'.action =
                          effectiveAction(decision.action,
                                          getContinuityGovernorCapabilities(env))
                    /\ after # NoRow
                    /\ after.updatedAt = clock
                    /\ ret'.action # "ok" =>
                          after.turnsSinceSnapshot = 0 /\ after.totalInjectedBytes = 0
                    /\ ret'.action = "ok" =>
                          after.turnsSinceSnapshot = before.turnsSinceSnapshot + 1]_vars

\* a passive record of an eventful run (a diff past the devlog threshold, an
\* error) that decides a non-ok action and resets the counters
C3_Witness ==
    /\ ret.op = "record"
    /\ env.continuityMode = "passive"
    /\ ret.action # "ok"
    /\ ret.detail.meaningful.devlog
    /\ ret.detail.meaningful.rejectedApproach
    /\ ret.detail.current.turnsSinceSnapshot > 0
    /\ stateRows[ret.subChatId].turnsSinceSnapshot = 0
    /\ artifacts = <<>>

\* C8: with a working store, after every record_run_outcome in passive or
\* active mode: when the returned action is not ok, the persisted
\* turns_since_snapshot and total_injected_bytes are both 0 and
\* last_snapshot_at is the time of the call; when it is ok,
\* turns_since_snapshot is the previous value plus 1, total_injected_bytes
\* the previous value plus max(injected_bytes, 0), and last_snapshot_at is
\* unchanged.  Both counters come from the one upsert of the call.
C8_CountersAfterRecord ==
    [][(ret'.op = "record" /\ env.continuityMode \in {"passive", "active"} /\ ret'.up) =>
          LET before == countersOf(stateRows[ret'.subChatId])
              after == stateRows'[ret'.subChatId]
              injected == IF ret'.input.injectedBytes = Null THEN 0
                          ELSE Max(ret'.input.injectedBytes[1], 0)
          IN  /\ after # NoRow
              /\ ret'.action # "ok" =>
                    /\ after.turnsSinceSnapshot = 0
                    /\ after.totalInjectedBytes = 0
                    /\ after.lastSnapshotAt = Some(clock)
              /\ ret'.action = "ok" =>
                    /\ after.turnsSinceSnapshot = before.turnsSinceSnapshot + 1
                    /\ after.totalInjectedBytes = before.totalInjectedBytes + injected
                    /\ after.lastSnapshotAt = before.lastSnapshotAt]_vars

\* an ok turn after a reset: the counters were zeroed at an earlier time and
\* this call, reporting a negative byte count, added one turn and no bytes to
\* a positive total, keeping the snapshot time
C8_Witness ==
    /\ ret.op = "record"
    /\ env.continuityMode \in {"passive", "active"}
    /\ ret.action = "ok"
    /\ ret.input.injectedBytes = Some(-5)
    /\ ret.detail.current.totalInjectedBytes > 0
    /\ stateRows[ret.subChatId].turnsSinceSnapshot = 1
    /\ stateRows[ret.subChatId].totalInjectedBytes = ret.detail.current.totalInjectedBytes
    /\ stateRows[ret.subChatId].lastSnapshotAt = Some(0)
    /\ clock > 0

\* C9: session state is mutated only by record_run_outcome: once a
\* SessionState row exists for a sub-session, no apply call changes its
\* last_changed_files_hash, turns_since_snapshot, total_injected_bytes or
\* last_snapshot_at.
C9_ApplyKeepsSessionState ==
    [][(ret'.op = "apply" /\ stateRows[ret'.subChatId] # NoRow) =>
          LET before == stateRows[ret'.subChatId]
              after == stateRows'[ret'.subChatId]
          IN  /\ after # NoRow
              /\ after.lastChangedFilesHash = before.lastChangedFilesHash
              /\ after.turnsSinceSnapshot = before.turnsSinceSnapshot
              /\ after.totalInjectedBytes = before.totalInjectedBytes
              /\ after.lastSnapshotAt = before.lastSnapshotAt]_vars

(***************************************************************************)
(* SpecGovernor: the governor's decision and its gating, applied to input  *)
(* tuples drawn around the thresholds, under every capability setting      *)
(***************************************************************************)
\* the values each signal is drawn from: each threshold and the value below it
GovernorValues ==
    [turnsSinceSnapshot |->
        {SNAPSHOT_TURN_THRESHOLD - 1, SNAPSHOT_TURN_THRESHOLD,
         REHYDRATE_TURN_THRESHOLD - 1, REHYDRATE_TURN_THRESHOLD},
     totalInjectedBytes |->
        {SNAPSHOT_BYTES_THRESHOLD - 1, SNAPSHOT_BYTES_THRESHOLD,
         REHYDRATE_BYTES_THRESHOLD - 1, REHYDRATE_BYTES_THRESHOLD},
     changedFilesCount |->
        {SNAPSHOT_FILES_THRESHOLD - 1, SNAPSHOT_FILES_THRESHOLD,
         REHYDRATE_FILES_THRESHOLD - 1, REHYDRATE_FILES_THRESHOLD},
     diffLines |->
        {SNAPSHOT_DIFF_THRESHOLD - 1, SNAPSHOT_DIFF_THRESHOLD,
         REHYDRATE_DIFF_THRESHOLD - 1, REHYDRATE_DIFF_THRESHOLD},
     elapsedSinceSnapshotMs |->
        {SNAPSHOT_ELAPSED_MS - 1, SNAPSHOT_ELAPSED_MS,
         REHYDRATE_ELAPSED_MS - 1, REHYDRATE_ELAPSED_MS}]

Signals == DOMAIN GovernorValues

GovernorInputs ==
    [turnsSinceSnapshot : GovernorValues.turnsSinceSnapshot,
     totalInjectedBytes : GovernorValues.totalInjectedBytes,
     changedFilesCount : GovernorValues.changedFilesCount,
     diffLines : GovernorValues.diffLines,
     elapsedSinceSnapshotMs : GovernorValues.elapsedSinceSnapshotMs]

Capabilities == [snapshotEnabled : BOOLEAN, rehydrateEnabled : BOOLEAN]

\* the decision recordRunOutcome takes for the drawn governor input, and its
\* gating under the drawn capabilities
Decide ==
    /\ ret.op = "drawn"
    /\ \E governorDecision \in {decideGovernor(ret.input)} :
          ret' = [op |-> "decide", input |-> ret.input, capabilities |-> ret.capabilities,
                  decision |-> governorDecision,
                  action |-> effectiveAction(governorDecision.action, ret.capabilities)]
    /\ UNCHANGED <<env, clock, repo, persistent, inMemory>>

InitGovernor ==
    \E input \in GovernorInputs, capabilities \in Capabilities :
        /\ env = Env("passive", capabilities.snapshotEnabled, capabilities.rehydrateEnabled,
                     "normal")
        /\ clock = 0
        /\ repo = [root \in Roots |-> RepoSmall]
        /\ settings = NoRow
        /\ packRows = EmptyMap
        /\ stateRows = [s \in SubChatIds |-> NoRow]
        /\ artifacts = <<>>
        /\ subChats = [s \in SubChatIds |-> NoRow]
        /\ chats = EmptyMap
        /\ contextPackCache = EmptyMap
        /\ subChatState = [s \in SubChatIds |-> Null]
        /\ protocolState = [s \in SubChatIds |-> Null]
        /\ searchCache = EmptyMap
        /\ searchRows = EmptyMap
        /\ calls = NoCalls
        /\ ret = [op |-> "drawn", input |-> input, capabilities |-> capabilities]

NextGovernor == Decide

SpecGovernor == InitGovernor /\ [][NextGovernor]_vars

\* how many of the conditions hold
CountTrue(conds) == Cardinality({i \in 1..Len(conds) : conds[i]})

\* C5: the governor decides rehydrate exactly when at least two of the five
\* rehydrate-level thresholds are met (turns >= 12, bytes >= 150000, changed
\* files >= 18, diff lines >= 280, elapsed >= 50 min); otherwise it decides
\* snapshot exactly when at least two of the five snapshot-level thresholds
\* are met (7, 90000, 10, 160, 25 min); otherwise ok.
C5_GovernorThresholds ==
    ret.op = "decide" =>
        LET i == ret.input
            severe == CountTrue(<<i.turnsSinceSnapshot >= 12,
                                  i.totalInjectedBytes >= 150000,
                                  i.changedFilesCount >= 18,
                                  i.diffLines >= 280,
                                  i.elapsedSinceSnapshotMs >= 50 * 60 * 1000>>)
            mild == CountTrue(<<i.turnsSinceSnapshot >= 7,
                                i.totalInjectedBytes >= 90000,
                                i.changedFilesCount >= 10,
                                i.diffLines >= 160,
                                i.elapsedSinceSnapshotMs >= 25 * 60 * 1000>>)
        IN  ret.decision.action =
                IF severe >= 2 THEN "rehydrate"
                ELSE IF mild >= 2 THEN "snapshot"
                ELSE "ok"

\* one rehydrate-level threshold met (turns = 12) and one more snapshot-level
\* threshold (files = 10): the decision is snapshot
C5_Witness ==
    /\ ret.op = "decide"
    /\ ret.input.turnsSinceSnapshot = 12
    /\ ret.input.totalInjectedBytes = 89999
    /\ ret.input.changedFilesCount = 10
    /\ ret.input.diffLines = 159
    /\ ret.input.elapsedSinceSnapshotMs = 25 * 60 * 1000 - 1
    /\ ret.decision.action = "snapshot"

Rank(action) == CASE action = "ok" -> 0 [] action = "snapshot" -> 1 [] action = "rehydrate" -> 2

\* the inputs that differ from input in one signal, which is larger
Raised(input) ==
    {[input EXCEPT ![signal] = v] :
        <<signal, v>> \in {sv \in Signals \X UNION {GovernorValues[s] : s \in Signals} :
                             sv[2] \in GovernorValues[sv[1]] /\ sv[2] > input[sv[1]]}}

\* C6: governor monotonicity: of two input tuples that differ only in one
\* signal, larger in the second, the second's action is never lower in the
\* order ok < snapshot < rehydrate; the same holds of the effective action
\* after capability gating under fixed capabilities.
C6_GovernorMonotone ==
    ret.op = "decide" =>
        \A second \in Raised(ret.input) :
            /\ Rank(decideGovernor(second).action) >= Rank(ret.decision.action)
            /\ Rank(effectiveAction(decideGovernor(second).action, ret.capabilities))
                  >= Rank(ret.action)

\* an input decided ok that one larger signal promotes to rehydrate
C6_Witness ==
    /\ ret.op = "decide"
    /\ ret.capabilities.snapshotEnabled /\ ret.capabilities.rehydrateEnabled
    /\ ret.action = "ok"
    /\ \E second \in Raised(ret.input) :
          effectiveAction(decideGovernor(second).action, ret.capabilities) = "rehydrate"

\* C7: capability gating: with rehydrate disabled the returned action is
\* never rehydrate (a rehydrate decision becomes snapshot if snapshot is
\* enabled, else ok); with snapshot disabled a snapshot decision becomes ok;
\* with both enabled the returned action is the governor's decision.
C7_CapabilityGating ==
    ret.op = "decide" =>
        LET decided == ret.decision.action
            capabilities == ret.capabilities
        IN  /\ ~capabilities.rehydrateEnabled => ret.action # "rehydrate"
            /\ (~capabilities.rehydrateEnabled /\ decided = "rehydrate") =>
                  ret.action = (IF capabilities.snapshotEnabled THEN "snapshot" ELSE "ok")
            /\ (~capabilities.snapshotEnabled /\ decided = "snapshot") => ret.action = "ok"
            /\ (capabilities.snapshotEnabled /\ capabilities.rehydrateEnabled) =>
                  ret.action = decided

\* a rehydrate decision degraded to snapshot
C7_Witness ==
    /\ ret.op = "decide"
    /\ ret.decision.action = "rehydrate"
    /\ ~ret.capabilities.rehydrateEnabled /\ ret.capabilities.snapshotEnabled
    /\ ret.action = "snapshot"

(***************************************************************************)
(* SpecCache: applies of one sub-chat while the token mode, the repository *)
(* and the stored conversation change and the process restarts.            *)
(***************************************************************************)
CacheEnvs ==
    {Env("passive", TRUE, FALSE, "normal"), Env("active", TRUE, FALSE, "low")}

CacheSettingsInputs ==
    {[artifactPolicy |-> Null, autoCommitToMemoryBranch |-> Null, tokenMode |-> Some(m),
      memoryBranch |-> Null] : m \in {"low", "debug"}}

InitCache == \E e \in CacheEnvs : InitWith(e, RepoLarge)

NextCache ==
    \/ \E input \in SpecApplyInputs :
          Apply(input, TRUE) /\ Cardinality(storedKeys') <= MaxCachePacks
    \/ \E input \in CacheSettingsInputs : UpdateSettings(input)
    \/ \E root \in Roots, r \in SpecRepos : RepoChange(root, r)
    \/ \E m \in ChatMessages : AppendMessage("s1", m)
    \/ Restart(env)

SpecCache == InitCache /\ [][NextCache]_vars

\* C4: every pack stored in the pack cache, in the hot tier or in a
\* persistent row, under a key built with budget profile B has a byte length
\* of at most B.max_pack_bytes, for every token mode and after any sequence
\* of apply calls with token-mode changes between them.
C4_PackWithinBudget ==
    /\ \A k \in DOMAIN contextPackCache :
          /\ k[6] \in {getContinuityBudgetProfile(m).maxPackBytes : m \in TokenModes}
          /\ ByteLength(contextPackCache[k]) <= k[6]
    /\ \A k \in DOMAIN packRows :
          /\ k[6] \in {getContinuityBudgetProfile(m).maxPackBytes : m \in TokenModes}
          /\ packRows[k].budgetBytes = k[6]
          /\ ByteLength(packRows[k].pack) <= k[6]

\* packs stored under two budgets, one of them cut short of its last section
\* by the clamp, and a row read back into the hot tier after a restart
C4_Witness ==
    /\ \E k1, k2 \in DOMAIN packRows :
          /\ k1[6] < k2[6]
          /\ \A i \in 1..Len(packRows[k1].pack) : packRows[k1].pack[i].sec # "USER_REQUEST"
          /\ ByteLength(packRows[k1].pack) > 0
    /\ ret.op = "apply" /\ ret.cacheHit
    /\ ret.cacheKey \in DOMAIN contextPackCache

(***************************************************************************)
(* SpecArtifacts: the turns of one sub-chat in active mode with the        *)
(* governor's actions disabled.  Each turn is an agent run, which takes a  *)
(* while and changes the size of the working-tree diff, followed by the    *)
(* record of its (failed) outcome.                                         *)
(***************************************************************************)
ArtifactRecordInputs ==
    {[subChatId |-> "s1", root |-> root, provider |-> "claude", mode |-> "agent",
      prompt |-> PromptRefactor, assistantResponse |-> ResponseDone,
      injectedBytes |-> Null, wasError |-> TRUE] : root \in Roots}

\* an agent run under root: time passes and the diff comes to d lines
AgentRun(root, d) ==
    /\ ret.op # "env"
    /\ clock < MaxRuns * SNAPSHOT_ELAPSED_MS
    /\ clock' = clock + SNAPSHOT_ELAPSED_MS
    /\ repo' = [repo EXCEPT ![root].diffLines = d]
    /\ ret' = [op |-> "env"]
    /\ UNCHANGED <<env, persistent, inMemory>>

InitArtifacts == InitWith(Env("active", FALSE, FALSE, "normal"), RepoSmall)

NextArtifacts ==
    \/ \E root \in Roots : \E d \in {repo[root].diffLines + 1, RepoSmall.diffLines} :
          AgentRun(root, d)
    \/ \E input \in ArtifactRecordInputs : ret.op = "env" /\ RecordRunOutcome(input, TRUE)

SpecArtifacts == InitArtifacts /\ [][NextArtifacts]_vars

\* C10: artifact uniqueness: in every reachable state of the artifact table,
\* after any number of record_run_outcome calls on a sub-session, no two
\* artifacts share the same (sub_session_id, type, event_fingerprint), also
\* when more than 12 other artifacts of that type were written between two
\* occurrences of the same fingerprint.
C10_ArtifactsUnique ==
    \A i, j \in 1..Len(artifacts) :
        i # j =>
            <<artifacts[i].subChatId, artifacts[i].type, artifacts[i].eventFingerprint>>
                # <<artifacts[j].subChatId, artifacts[j].type, artifacts[j].eventFingerprint>>

(***************************************************************************)
(* Repeated applies of one sub-chat                                        *)
(***************************************************************************)
\* a step that is an apply of the sub-chat and key of the apply before it,
\* that apply having been the sub-chat's first (it read no protocol state)
\* and a miss
IsFirstRepeat ==
    /\ ret.op = "apply" /\ ret.continuityMode = "active" /\ ~ret.cacheHit
    /\ ret'.op = "apply" /\ ret'.continuityMode = "active"
    /\ ret'.subChatId = ret.subChatId
    /\ ret'.cacheKey = ret.cacheKey

\* C18: in active mode, the second apply of a sub-session with the same
\* CacheKey as its first apply returns a prompt byte-identical to the one the
\* first apply returned, and the hit leaves the pack-cache row of that key
\* unmodified.
C18_SecondApplySamePrompt ==
    [][IsFirstRepeat =>
            /\ ret'.prompt = ret.prompt
            /\ ret'.cacheKey \in DOMAIN packRows
            /\ packRows' = packRows]_vars

\* C19: after a fresh sub-session's first apply misses and builds the pack,
\* the next apply of the same sub-session with the same CacheKey returns
\* cache_hit = true, reused_percent = 75 and the full envelope: the cached
\* pack, a blank line, the prompt.
C19_FirstRepeatFullEnvelope ==
    [][IsFirstRepeat =>
            /\ ret'.cacheHit
            /\ ret'.reusedPercent = 75
            /\ ret'.prompt = withPrompt(ret.pack, ret'.input.prompt)]_vars

\* C20: an apply of a sub-session whose protocol state already holds the
\* CacheKey (the apply before it had the same key, so the third consecutive
\* apply is one) returns cache_hit = true and reused_percent = 95, and in
\* active mode its prompt is the envelope of the STATE_IDS, DELTA, OBJECTIVE
\* and USER_REQUEST sections alone, a blank line and the prompt.
C20_DeltaOnlyUpgrade ==
    [][(/\ ret'.op = "apply" /\ ret'.continuityMode # "off"
        /\ protocolState[ret'.subChatId] = ret'.cacheKey)
        => /\ ret'.cacheHit
           /\ ret'.reusedPercent = 95
           /\ ret'.continuityMode = "active" =>
                 Sections(ret'.prompt) =
                    <<"STATE_IDS", "DELTA", "OBJECTIVE", "USER_REQUEST", "SEPARATOR",
                      "PROMPT">>]_vars

\* the state after the second and the third apply with one key: a hit that
\* reuses 95 percent and whose prompt has no anchor and no context section,
\* the full pack of the key being in the cache
C20_Witness ==
    /\ ret.op = "apply" /\ ret.continuityMode = "active"
    /\ ret.cacheHit /\ ret.reusedPercent = 95
    /\ protocolState[ret.subChatId] = ret.cacheKey
    /\ "ANCHOR" \in {ret.pack[i].sec : i \in 1..Len(ret.pack)}
    /\ \A i \in 1..Len(ret.prompt) : ret.prompt[i].sec \notin {"ANCHOR", "CONTEXT"}

(***************************************************************************)
(* SpecSafeguard: the safeguard settings and the auto-commit policy, over  *)
(* settings rows written through the settings router, repositories on      *)
(* several branches and a failing store or branch probe.                   *)
(***************************************************************************)
\* getSafeguardSettings followed by assessAutoCommitPolicy, as
\* recordRunOutcome calls them
AssessAutoCommitPolicy(root, up) ==
    /\ ret' = [op |-> "assess", up |-> up, row |-> settings, repo |-> repo[root],
               settings |-> getSafeguardSettings(settings, env, up),
               policy |-> assessAutoCommitPolicy(repo[root],
                                                 getSafeguardSettings(settings, env, up))]
    /\ settings' = settingsAfterRead(settings, env, clock, up)
    /\ UNCHANGED <<env, clock, repo, packRows, stateRows, artifacts, subChats, chats,
                   searchRows, inMemory>>

SafeguardBranches == {DefaultMemoryBranch, "feature/x", "unknown"}

SafeguardEnvs ==
    {[Env("active", TRUE, TRUE, "normal") EXCEPT !.artifactPolicy = p] : p \in ArtifactPolicies}

SafeguardRepos == {[RepoSmall EXCEPT !.branch = b] : b \in SafeguardBranches} \cup {RepoNoGit}

SafeguardSettingsInputs ==
    {[artifactPolicy |-> Some(p), autoCommitToMemoryBranch |-> Some(c),
      tokenMode |-> Null, memoryBranch |-> Some(b)]
        : p \in ArtifactPolicies, c \in BOOLEAN, b \in SafeguardBranches}

InitSafeguard == \E e \in SafeguardEnvs, r \in SafeguardRepos : InitWith(e, r)

NextSafeguard ==
    \/ \E root \in Roots, up \in BOOLEAN : AssessAutoCommitPolicy(root, up)
    \/ \E input \in SafeguardSettingsInputs : UpdateSettings(input)
    \/ \E root \in Roots, r \in SafeguardRepos : RepoChange(root, r)

SpecSafeguard == InitSafeguard /\ [][NextSafeguard]_vars

\* the branch the probe of the assessed repository names, if it names one
OnBranch(b) == ret.repo.git /\ ret.repo.branch = b

\* the settings the assessment used are the defaults: no row, or no store
DefaultSettingsUsed == ret.row = NoRow \/ ~ret.up

C12_Eligibility ==
    /\ ret.policy.requested <=>
            (/\ ret.settings.artifactPolicy = "auto-write-memory-branch"
             /\ ret.settings.autoCommitToMemoryBranch)
    /\ ret.policy.allowed <=>
            (ret.policy.requested /\ ret.policy.currentBranch = ret.settings.memoryBranch)
    /\ ret.repo.git => ret.policy.currentBranch = ret.repo.branch

\* C12 as stated: requested exactly when the policy is
\* auto-write-memory-branch and auto-commit is on; allowed exactly when
\* requested and the current branch equals settings.memory_branch; allowed is
\* never true on another branch, on an unknown branch, or under the default
\* settings.
C12_AsStated ==
    ret.op = "assess" =>
        /\ C12_Eligibility
        /\ (\E b \in SafeguardBranches \ {ret.settings.memoryBranch} : OnBranch(b))
                => ~ret.policy.allowed
        /\ ~ret.repo.git => ~ret.policy.allowed
        /\ DefaultSettingsUsed => ~ret.policy.allowed

\* C12 amended: as stated, except that with a failed branch probe allowed is
\* false only when the memory branch is not named "unknown".
C12_SafeguardEligibility ==
    ret.op = "assess" =>
        /\ C12_Eligibility
        /\ (\E b \in SafeguardBranches \ {ret.settings.memoryBranch} : OnBranch(b))
                => ~ret.policy.allowed
        /\ (~ret.repo.git /\ ret.settings.memoryBranch # "unknown") => ~ret.policy.allowed
        /\ DefaultSettingsUsed => ~ret.policy.allowed

\* auto-commit requested and allowed on the memory branch
C12_Witness ==
    /\ ret.op = "assess"
    /\ ret.policy.requested /\ ret.policy.allowed
    /\ OnBranch(ret.settings.memoryBranch)
    /\ ret.settings.memoryBranch = "feature/x"

(***************************************************************************)
(* SpecActive: recordRunOutcome in active mode with rehydrate enabled,     *)
(* while auto-commit is switched on, the repository changes branch and     *)
(* content, time passes, messages are stored and the sub-chat is deleted.  *)
(***************************************************************************)
ActiveEnvs == {Env("active", TRUE, TRUE, "normal")}

ActiveRepos == {RepoSmall, RepoMedium}

ActiveRecordInputs ==
    {[subChatId |-> "s1", root |-> root, provider |-> "claude", mode |-> "agent",
      prompt |-> PromptRefactor, assistantResponse |-> c[1], injectedBytes |-> c[2],
      wasError |-> c[3]] :
        root \in Roots,
        c \in {<<ResponseDone, Null, FALSE>>, <<ResponsePivot, Null, FALSE>>,
               <<ResponseDone, Some(REHYDRATE_BYTES_THRESHOLD), TRUE>>}}

ActiveSettingsInputs ==
    {[artifactPolicy |-> Some("auto-write-memory-branch"),
      autoCommitToMemoryBranch |-> Some(TRUE), tokenMode |-> Null, memoryBranch |-> Null]}

InitActive == \E e \in ActiveEnvs : InitWith(e, RepoSmall)

NextActive ==
    \/ \E input \in ActiveRecordInputs :
          RecordRunOutcome(input, TRUE) /\ Bounded(MaxPacks, MaxActiveArtifacts, MaxTurns)'
    \/ \E input \in ActiveSettingsInputs : UpdateSettings(input)
    \/ \E root \in Roots, r \in ActiveRepos : RepoChange(root, r)
    \/ Elapse(MaxActiveTicks)
    \/ \E m \in ChatMessages : AppendMessage("s1", m)
    \/ DeleteSubChat("s1")

SpecActive == InitActive /\ [][NextActive]_vars

\* the number of artifacts of the sub-chat with the type and fingerprint
artifactCount(table, subChatId, type, eventFingerprint) ==
    Cardinality({i \in 1..Len(table) :
                    /\ table[i].subChatId = subChatId
                    /\ table[i].type = type
                    /\ table[i].eventFingerprint = eventFingerprint})

\* C11: two consecutive record_run_outcome calls in active mode on the same
\* sub-session whose event detector yields the same event_fingerprint leave
\* exactly one artifact with that event's fingerprint of each fired type
\* (devlog, adr, rejected-approach), not two.
C11_ArtifactDedup ==
    [][(/\ ret.op = "record" /\ ret.continuityMode = "active"
        /\ ret'.op = "record" /\ ret'.continuityMode = "active"
        /\ ret'.subChatId = ret.subChatId
        /\ ret'.detail.meaningful.eventFingerprint = ret.detail.meaningful.eventFingerprint)
        => LET fp == ret'.detail.meaningful.eventFingerprint
               fired == [devlog |-> ret.detail.meaningful.devlog
                                        \/ ret'.detail.meaningful.devlog,
                         adr |-> ret.detail.meaningful.adr \/ ret'.detail.meaningful.adr,
                         rejected |-> ret.detail.meaningful.rejectedApproach
                                        \/ ret'.detail.meaningful.rejectedApproach]
           IN  /\ fired.devlog =>
                    artifactCount(artifacts', ret'.subChatId, "devlog", fp) = 1
               /\ fired.adr =>
                    artifactCount(artifacts', ret'.subChatId, "adr", <<fp, "adr">>) = 1
               /\ fired.rejected =>
                    artifactCount(artifacts', ret'.subChatId, "rejected-approach",
                                  <<fp, "rejected">>) = 1]_vars

\* the state after the second of two calls a clock step apart: the event
\* fired all three types, each is stored once, and the two governor devlogs
\* of the two calls are both there
C11_Witness ==
    /\ ret.op = "record" /\ ret.continuityMode = "active"
    /\ ret.detail.meaningful.devlog /\ ret.detail.meaningful.adr
    /\ ret.detail.meaningful.rejectedApproach
    /\ artifactCount(artifacts, "s1", "devlog", ret.detail.meaningful.eventFingerprint) = 1
    /\ artifactCount(artifacts, "s1", "adr",
                     <<ret.detail.meaningful.eventFingerprint, "adr">>) = 1
    /\ artifactCount(artifacts, "s1", "rejected-approach",
                     <<ret.detail.meaningful.eventFingerprint, "rejected">>) = 1
    /\ \E i, j \in 1..Len(artifacts) :
          /\ artifacts[i].createdAt < artifacts[j].createdAt
          /\ artifacts[i].eventFingerprint[1] = "s1"
          /\ artifacts[j].eventFingerprint[1] = "s1"
    /\ ret.now > 0

\* C15: when record_run_outcome runs in active mode with effective action
\* rehydrate and the sub-session record exists, afterwards the sub-session's
\* stored message list holds exactly one message, the synthetic assistant
\* carry-over, its session_id and stream_id are cleared and the parent chat's
\* updated_at is the time of the call; when the record is absent, the
\* sub-session and chat tables are left as they were.
C15_RehydrateEffect ==
    [][(ret'.op = "record" /\ ret'.continuityMode = "active" /\ ret'.action = "rehydrate")
        => IF subChats[ret'.subChatId] # NoRow
           THEN /\ Len(subChats'[ret'.subChatId].messages) = 1
                /\ subChats'[ret'.subChatId].messages[1].kind = "rehydrate"
                /\ subChats'[ret'.subChatId].messages[1].role = "assistant"
                /\ subChats'[ret'.subChatId].sessionId = Null
                /\ subChats'[ret'.subChatId].streamId = Null
                /\ chats'[subChats[ret'.subChatId].chatId] = ret'.now
           ELSE subChats' = subChats /\ chats' = chats]_vars

\* a rehydrate a clock step after the start: the one message is the
\* carry-over, the session handle the sub-chat started with is gone and the
\* chat carries the time of the call
C15_Witness ==
    /\ ret.op = "record" /\ ret.continuityMode = "active" /\ ret.action = "rehydrate"
    /\ ret.now > 0
    /\ subChats[ret.subChatId] # NoRow
    /\ Len(subChats[ret.subChatId].messages) = 1
    /\ subChats[ret.subChatId].messages[1].kind = "rehydrate"
    /\ subChats[ret.subChatId].sessionId = Null
    /\ chats[subChats[ret.subChatId].chatId] = ret.now

\* a rehydrate decided for a deleted sub-chat
C15_WitnessAbsent ==
    /\ ret.op = "record" /\ ret.continuityMode = "active" /\ ret.action = "rehydrate"
    /\ subChats[ret.subChatId] = NoRow

\* effects keeps the order of the sequence order: it is order with some
\* elements left out
RECURSIVE InOrder(_, _)
InOrder(effects, order) ==
    IF effects = <<>> THEN TRUE
    ELSE IF order = <<>> THEN FALSE
    ELSE IF Head(effects) = Head(order) THEN InOrder(Tail(effects), Tail(order))
    ELSE InOrder(effects, Tail(order))

\* C16: within one record_run_outcome call in active mode the side effects
\* occur in this order: the event-detected artifact writes (devlog, adr,
\* rejected-approach), the SessionState persist, the governor-action devlog,
\* the safeguard event and the block devlog, the rehydrate; and the carry-over
\* of the rehydrate is built from the artifact table the call leaves, which
\* holds every artifact the call wrote.
C16_RecordOrder ==
    [][(ret'.op = "record" /\ ret'.continuityMode = "active")
        => /\ InOrder(SelectSeq(ret'.detail.effects,
                                LAMBDA e : e \notin {"settings-row", "governor-event"}),
                      <<"event-devlog", "event-adr", "event-rejected", "session-state",
                        "governor-devlog", "safeguard-event", "block-devlog", "rehydrate">>)
           /\ (ret'.action = "rehydrate" /\ subChats[ret'.subChatId] # NoRow)
                => LET idx == {i \in 1..Len(artifacts') :
                                    artifacts'[i].subChatId = ret'.subChatId}
                   IN  \E W \in newestWindows(artifacts', idx, 6) :
                          /\ subChats'[ret'.subChatId].messages[1].carry =
                                [i \in 1..Cardinality(W) |->
                                    <<artifacts'[newestFirst(artifacts', W)[i]].type,
                                      clampChars(artifacts'[newestFirst(artifacts', W)[i]]
                                                    .content.firstLine, 180)>>]
                          /\ Cardinality(idx) <= 6 =>
                                \A i \in 1..Len(artifacts') :
                                    i > Len(artifacts) => i \in W]_vars

\* a call that wrote two event artifacts, the session state, the governor
\* devlog and the block devlog and then rehydrated: the effects in the order
\* of the claim, and a carry-over listing the four artifacts
C16_Witness ==
    /\ ret.op = "record" /\ ret.continuityMode = "active"
    /\ SelectSeq(ret.detail.effects, LAMBDA e : e \notin {"settings-row", "governor-event"})
            = <<"event-devlog", "event-rejected", "session-state",
                "governor-devlog", "safeguard-event", "block-devlog", "rehydrate">>
    /\ subChats[ret.subChatId] # NoRow
    /\ Len(subChats[ret.subChatId].messages[1].carry) = 4

(***************************************************************************)
(* SpecCrash: apply and recordRunOutcome in active mode, and the process   *)
(* dying between two writes of either.                                     *)
(***************************************************************************)
CrashApplyInputs ==
    {[subChatId |-> "s1", root |-> root, prompt |-> PromptRefactor, mode |-> "agent",
      provider |-> "claude"] : root \in Roots}

\* the working tree grows from the small repository to the medium one
CrashRepos == {RepoMedium}

InitCrash == InitWith(Env("active", TRUE, TRUE, "normal"), RepoSmall)

NextCrash ==
    \/ \E input \in CrashApplyInputs :
          Apply(input, TRUE) /\ SpecBounded'
    \/ \E input \in ActiveRecordInputs :
          RecordRunOutcome(input, TRUE) /\ SpecBounded'
    \/ \E input \in CrashApplyInputs, done \in 0..Len(applyWriteOrder) :
          ApplyCrash(input, done) /\ SpecBounded'
    \/ \E input \in ActiveRecordInputs, done \in 0..Len(recordWriteOrder) :
          RecordCrash(input, done) /\ SpecBounded'
    \/ \E root \in Roots, r \in CrashRepos : RepoChange(root, r)

SpecCrash == InitCrash /\ [][NextCrash]_vars

\* the position of the side effect in the sequence, 0 when it is not there
positionOf(effect, effects) ==
    IF \E i \in 1..Len(effects) : effects[i] = effect
    THEN CHOOSE i \in 1..Len(effects) : effects[i] = effect
    ELSE 0

\* C17: in apply and in record_run_outcome the SessionState update is the
\* last persistent write of the call: a call that ends before that write
\* leaves the pack cache, the artifacts, the session state and the message
\* log as they were before the call, and no persistent write follows the
\* SessionState update.
C17_SingleCommitPoint ==
    [][/\ (ret'.op = "crash" /\ positionOf("session-state", ret'.completed) = 0)
            => <<packRows, artifacts, stateRows, subChats>>'
                    = <<packRows, artifacts, stateRows, subChats>>
       /\ (ret'.op = "record" /\ ret'.continuityMode # "off")
            => \A i \in 1..Len(ret'.detail.effects) :
                  (/\ positionOf("session-state", ret'.detail.effects) > 0
                   /\ i > positionOf("session-state", ret'.detail.effects))
                    => ret'.detail.effects[i] \in {"governor-event", "safeguard-event"}]_vars

(***************************************************************************)
(* SpecBlocked: apply and recordRunOutcome in every mode while auto-commit *)
(* is switched on and the repository changes branch, or stops answering    *)
(* the probes.                                                             *)
(***************************************************************************)
BlockedEnvs == {Env(m, TRUE, FALSE, "normal") : m \in ContinuityModes}

BlockedRepos == {RepoSmall, RepoMedium, RepoNoGit}

BlockedApplyInputs ==
    {[subChatId |-> "s1", root |-> root, prompt |-> PromptRefactor, mode |-> "agent",
      provider |-> "claude"] : root \in Roots}

BlockedRecordInputs ==
    {[subChatId |-> "s1", root |-> root, provider |-> "claude", mode |-> "agent",
      prompt |-> PromptRefactor, assistantResponse |-> ResponseDone, injectedBytes |-> Null,
      wasError |-> e] : root \in Roots, e \in BOOLEAN}

InitBlocked == \E e \in BlockedEnvs : InitWith(e, RepoSmall)

NextBlocked ==
    \/ \E input \in BlockedApplyInputs :
          Apply(input, TRUE) /\ Bounded(MaxPacks, MaxActiveArtifacts, MaxTurns)'
    \/ \E input \in BlockedRecordInputs :
          RecordRunOutcome(input, TRUE) /\ Bounded(MaxPacks, MaxActiveArtifacts, MaxTurns)'
    \/ \E input \in ActiveSettingsInputs : UpdateSettings(input)
    \/ \E root \in Roots, r \in BlockedRepos : RepoChange(root, r)

SpecBlocked == InitBlocked /\ [][NextBlocked]_vars

\* the safeguard event of a call's telemetry, if it has one
safeguardActions(telemetry) ==
    {telemetry[i].action : i \in {j \in 1..Len(telemetry) : telemetry[j].event = "safeguard"}}

\* C13: when auto-commit is requested and the current branch differs from
\* the memory branch, record_run_outcome in active mode emits the safeguard
\* event auto-commit-blocked and afterwards a devlog artifact with the
\* fingerprint <head_commit>:auto-commit-blocked:<current_branch> exists for
\* the sub-session; no apply and no record_run_outcome changes the
\* repository.
C13_BlockedAutoCommit ==
    [][/\ (/\ ret'.op = "record" /\ ret'.continuityMode = "active"
            /\ settings # NoRow
            /\ settings.artifactPolicy = "auto-write-memory-branch"
            /\ settings.autoCommitToMemoryBranch
            /\ currentBranch(repo[ret'.input.root]) # settings.memoryBranch
            /\ subChats[ret'.subChatId] # NoRow)
            => /\ safeguardActions(ret'.telemetry) = {"auto-commit-blocked"}
               /\ artifactCount(artifacts', ret'.subChatId, "devlog",
                                 <<getRepoState(repo[ret'.input.root]).headCommit,
                                   "auto-commit-blocked",
                                   currentBranch(repo[ret'.input.root])>>) >= 1
       /\ ret'.op \in {"apply", "record"} => repo' = repo]_vars

\* a blocked call on branch feature/x: the event is in the telemetry and the
\* block devlog in the table
C13_Witness ==
    /\ ret.op = "record" /\ ret.continuityMode = "active"
    /\ settings # NoRow /\ settings.autoCommitToMemoryBranch
    /\ safeguardActions(ret.telemetry) = {"auto-commit-blocked"}
    /\ repo[ret.input.root].git /\ repo[ret.input.root].branch = "feature/x"
    /\ \E i \in 1..Len(artifacts) :
          /\ artifacts[i].subChatId = ret.subChatId
          /\ artifacts[i].type = "devlog"
          /\ artifacts[i].eventFingerprint = <<"abc123", "auto-commit-blocked", "feature/x">>
          /\ artifacts[i].content.firstLine = BlockedLine

(***************************************************************************)
(* SpecFaults: apply and recordRunOutcome while the store, the version-    *)
(* control probes, the file reads and the file listing fail, each call     *)
(* with or without a working store.  A failed probe, read or listing is    *)
(* the repository the helper's catch branch makes of it.                   *)
(***************************************************************************)
FaultKinds == {"vcs", "diff", "branch", "files", "listing"}

\* what the helpers see of repository r under the faults
Faulted(r, faults) ==
    [git |-> r.git /\ "vcs" \notin faults,
     headCommit |-> r.headCommit,
     branch |-> IF "branch" \in faults THEN "unknown" ELSE r.branch,
     files |-> r.files,
     diffLines |-> IF "diff" \in faults THEN 0 ELSE r.diffLines,
     diffUnits |-> IF "diff" \in faults THEN 0 ELSE r.diffUnits,
     anchors |-> IF "files" \in faults THEN <<>> ELSE r.anchors,
     listing |-> IF "listing" \in faults THEN <<>> ELSE r.listing,
     fileBytes |-> IF "files" \in faults THEN 2 * r.fileBytes + 1000000 ELSE r.fileBytes,
     summaryCls |-> r.summaryCls, summaryUnits |-> r.summaryUnits]

FaultRepos == {Faulted(RepoLarge, faults) : faults \in SUBSET FaultKinds}

FaultEnvs == {Env("passive", TRUE, TRUE, "normal"), Env("active", TRUE, TRUE, "normal")}

FaultApplyInputs ==
    {[subChatId |-> "s1", root |-> root, prompt |-> PromptRefactor, mode |-> m,
      provider |-> "claude"] : root \in Roots, m \in ChatModes}

FaultRecordInputs ==
    {[subChatId |-> "s1", root |-> root, provider |-> "claude", mode |-> "agent",
      prompt |-> PromptRefactor, assistantResponse |-> ResponseDone,
      injectedBytes |-> Some(REHYDRATE_BYTES_THRESHOLD), wasError |-> e]
        : root \in Roots, e \in BOOLEAN}

InitFaults == \E e \in FaultEnvs, r \in FaultRepos : InitWith(e, r)

NextFaults ==
    \/ \E input \in FaultApplyInputs, up \in BOOLEAN : Apply(input, up) /\ SpecBounded'
    \/ \E input \in FaultRecordInputs, up \in BOOLEAN :
          RecordRunOutcome(input, up) /\ SpecBounded'
    \/ \E root \in Roots, r \in {RepoLarge, Faulted(RepoLarge, FaultKinds)} :
          RepoChange(root, r)

SpecFaults == InitFaults /\ [][NextFaults]_vars

IsId(id) == id = <<"none">> \/ (Len(id) = 2 /\ id[1] = "sha256")

\* the text ends with the units of the prompt
EndsWithPrompt(text, prompt) ==
    /\ Len(text) >= 1
    /\ <<text[Len(text)]>> = AsText("PROMPT", prompt)

WellFormedApply(out) ==
    /\ EndsWithPrompt(out.prompt, out.input.prompt)
    /\ out.cacheHit \in BOOLEAN
    /\ out.injectedBytes \in Nat
    /\ out.injectedBytes <= ByteLength(out.prompt)
    /\ out.reusedPercent \in {35, 75, 95, 100}
    /\ IsId(out.stateIds.anchorPackId)
    /\ IsId(out.stateIds.contextPackId)
    /\ IsId(out.stateIds.deltaPackId)
    /\ out.stateIds.planContractId = Null \/ IsId(out.stateIds.planContractId)

WellFormedRecord(out) ==
    /\ out.action \in {"ok", "snapshot", "rehydrate"}
    /\ out.reasons \in Seq(STRING)

\* C14: when any subset of store reads and writes, version-control probes,
\* file reads and the file listing fail, apply returns a well-formed output
\* (a prompt, cache_hit, a non-negative injected_bytes, reused_percent, state
\* ids) and record_run_outcome returns an action in {ok, snapshot, rehydrate}
\* with a reasons list; neither call ends in an error.
C14_NeverThrows ==
    ret.op \notin {"init", "env"} =>
        /\ ret.op \in {"apply", "record"}
        /\ ret.op = "apply" => WellFormedApply(ret)
        /\ ret.op = "record" => WellFormedRecord(ret)

\* a record call without a store over a repository none of whose probes,
\* reads and listings answers
C14_Witness ==
    /\ ret.op = "record" /\ ~ret.up
    /\ repo[ret.input.root] = Faulted(RepoLarge, FaultKinds)
    /\ WellFormedRecord(ret)
    /\ artifacts = <<>> /\ stateRows[ret.subChatId] = NoRow

\* an apply without a store over the same repository
C14_WitnessApply ==
    /\ ret.op = "apply" /\ ~ret.up /\ ~ret.cacheHit
    /\ repo[ret.input.root] = Faulted(RepoLarge, FaultKinds)
    /\ WellFormedApply(ret)
    /\ packRows = EmptyMap

(***************************************************************************)
(* The form of the delta pack                                              *)
(***************************************************************************)
\* the first line of a delta pack
deltaForm(deltaPack) == deltaPack[1].src[1]

\* the lines of the text that carry the source
HasLine(text, src) == \E i \in 1..Len(text) : text[i].src = src

\* the delta pack of an apply: the text its deltaPackId is the hash of
deltaPackOf(out) == out.stateIds.deltaPackId[2]

\* the SessionState of the sub-chat, hot or persisted, if there is one
sessionStateOf(hot, rows, subChatId) ==
    getSubChatState(hot[subChatId], rows[subChatId], TRUE)

\* C21: the delta pack of an apply has the first-run form exactly when no
\* SessionState (hot or persisted) exists for the sub-session; otherwise the
\* unchanged form exactly when the stored last_changed_files_hash equals the
\* current changed_files_hash, and then it lists no changed files and no diff
\* snippet; otherwise the changed form.  The stored hash is the one left by
\* the most recent apply miss or record_run_outcome of the sub-session.
C21_DeltaPackForm ==
    [][/\ (ret'.op = "apply" /\ ret'.continuityMode # "off") =>
            LET stored == sessionStateOf(subChatState, stateRows, ret'.subChatId)
                current == getRepoState(repo[ret'.input.root]).changedFilesHash
                delta == deltaPackOf(ret')
            IN  /\ deltaForm(delta) =
                        (IF stored = Null THEN "first_run: true"
                         ELSE IF stored = current THEN "repo_delta: unchanged"
                         ELSE "repo_delta: changed")
                /\ deltaForm(delta) = "repo_delta: unchanged" =>
                        /\ ~HasLine(delta, <<"changed_files: ">>)
                        /\ ~HasLine(delta, <<"[DIFF_SNIPPET]">>)
                /\ deltaForm(delta) # "repo_delta: unchanged" =>
                        /\ HasLine(delta, <<"changed_files: ">>)
                        /\ HasLine(delta, <<"[DIFF_SNIPPET]">>)
       /\ \A s \in SubChatIds :
            sessionStateOf(subChatState, stateRows, s)'
                    # sessionStateOf(subChatState, stateRows, s) =>
                /\ \/ ret'.op = "apply" /\ ~ret'.cacheHit
                   \/ ret'.op = "record"
                /\ ret'.continuityMode # "off"
                /\ ret'.subChatId = s
                /\ sessionStateOf(subChatState, stateRows, s)'
                        = getRepoState(repo[ret'.input.root]).changedFilesHash
      ]_vars

\* an apply that found the hash a record_run_outcome left, the repository
\* unchanged since, and built the unchanged form
C21_Witness ==
    /\ ret.op = "apply" /\ ret.continuityMode # "off"
    /\ deltaForm(deltaPackOf(ret)) = "repo_delta: unchanged"
    /\ stateRows[ret.subChatId] # NoRow
    /\ stateRows[ret.subChatId].turnsSinceSnapshot > 0

\* an apply that found a hash of another state of the repository
C21_WitnessChanged ==
    /\ ret.op = "apply" /\ ret.continuityMode # "off"
    /\ deltaForm(deltaPackOf(ret)) = "repo_delta: changed"

(***************************************************************************)
(* SpecClamp: clampByBytes applied to strings of one or two runs of every  *)
(* encoding class and to every byte bound up to MaxClampBytes.             *)
(***************************************************************************)
MaxClampUnits == 4
MaxClampBytes == 9

\* well-formed strings: surrogates come in pairs
ClampRuns ==
    {Run("TEXT", <<cls>>, cls, n) : cls \in {"ascii", "bmp2", "bmp3"}, n \in 1..MaxClampUnits}
        \cup {Run("TEXT", <<"pair">>, "pair", 2 * c) : c \in 1..(MaxClampUnits \div 2)}

ClampTexts == {<<>>} \cup {<<r>> : r \in ClampRuns} \cup {<<r, s>> : r, s \in ClampRuns}

\* the state after construction, with the arguments of the call to come
InitClamp ==
    /\ env = Env("active", TRUE, TRUE, "normal")
    /\ clock = 0
    /\ repo = [root \in Roots |-> RepoSmall]
    /\ settings = NoRow
    /\ packRows = EmptyMap
    /\ stateRows = [s \in SubChatIds |-> NoRow]
    /\ artifacts = <<>>
    /\ subChats = [s \in SubChatIds |->
                      [chatId |-> ChatOf(s), mode |-> "agent", messages |-> <<>>,
                       sessionId |-> Some("session"), streamId |-> Null, updatedAt |-> 0]]
    /\ chats = [c \in {ChatOf(s) : s \in SubChatIds} |-> 0]
    /\ contextPackCache = EmptyMap
    /\ subChatState = [s \in SubChatIds |-> Null]
    /\ protocolState = [s \in SubChatIds |-> Null]
    /\ searchCache = EmptyMap
    /\ searchRows = EmptyMap
    /\ calls = NoCalls
    /\ \E value \in ClampTexts, maxBytes \in 0..MaxClampBytes :
          ret = [op |-> "input", value |-> value, maxBytes |-> maxBytes]

\* one call of clampByBytes
Clamp ==
    /\ ret.op = "input"
    /\ ret' = [op |-> "clamp", value |-> ret.value, maxBytes |-> ret.maxBytes,
               out |-> clampByBytes(ret.value, ret.maxBytes)]
    /\ UNCHANGED <<env, clock, repo, persistent, inMemory>>

NextClamp == Clamp

SpecClamp == InitClamp /\ [][NextClamp]_vars

\* the text ends with half of a surrogate pair
EndsInHalfPair(t) == t # <<>> /\ t[Len(t)].cls = "lone"

\* C25: for every string s and every n >= 0, clamp_by_bytes(s, n) returns a
\* prefix of s whose UTF-8 byte length is at most n and that splits no
\* multi-unit code point (no half of a surrogate pair is left at the end);
\* for s already within the bound it returns s unchanged.
C25_ClampCorrect ==
    ret.op = "clamp" =>
        /\ ret.out = Slice(ret.value, Length(ret.out))
        /\ ByteLength(ret.out) <= ret.maxBytes
        /\ ~EndsInHalfPair(ret.out)
        /\ ByteLength(ret.value) <= ret.maxBytes => ret.out = ret.value

\* what holds of every call: a prefix in code units within the byte bound,
\* the string itself when it is within the bound
C25_ClampBounded ==
    ret.op = "clamp" =>
        /\ ret.out = Slice(ret.value, Length(ret.out))
        /\ ByteLength(ret.out) <= ret.maxBytes
        /\ ByteLength(ret.value) <= ret.maxBytes => ret.out = ret.value

(***************************************************************************)
(* SpecContext: buildContextPack applied to prompts with and without       *)
(* keywords, to repositories with none, one, ten and eighteen changed      *)
(* files and summaries of several sizes, under each budget profile.        *)
(***************************************************************************)
ContextSummaryUnits == {300, 750, 1100}

ContextRepos ==
    {[r EXCEPT !.summaryUnits = units] :
        r \in {RepoNoGit, RepoSmall, RepoMedium, RepoLarge}, units \in ContextSummaryUnits}

ContextPrompts == {PromptRefactor, PromptRefactorLoud, PromptFix}

\* the state after construction, with the arguments of the call to come
InitContext ==
    /\ env = Env("active", TRUE, TRUE, "normal")
    /\ clock = 0
    /\ \E r \in ContextRepos : repo = [root \in Roots |-> r]
    /\ settings = NoRow
    /\ packRows = EmptyMap
    /\ stateRows = [s \in SubChatIds |-> NoRow]
    /\ artifacts = <<>>
    /\ subChats = [s \in SubChatIds |->
                      [chatId |-> ChatOf(s), mode |-> "agent", messages |-> <<>>,
                       sessionId |-> Some("session"), streamId |-> Null, updatedAt |-> 0]]
    /\ chats = [c \in {ChatOf(s) : s \in SubChatIds} |-> 0]
    /\ contextPackCache = EmptyMap
    /\ subChatState = [s \in SubChatIds |-> Null]
    /\ protocolState = [s \in SubChatIds |-> Null]
    /\ searchCache = EmptyMap
    /\ searchRows = EmptyMap
    /\ calls = NoCalls
    /\ \E root \in Roots, prompt \in ContextPrompts, tokenMode \in TokenModes :
          ret = [op |-> "input", root |-> root, prompt |-> prompt, tokenMode |-> tokenMode]

\* one call of buildContextPack
BuildContextPack ==
    /\ ret.op = "input"
    /\ \E budget \in {getContinuityBudgetProfile(ret.tokenMode)} :
       \E repoState \in {getRepoState(repo[ret.root])} :
          ret' = [op |-> "context", root |-> ret.root, prompt |-> ret.prompt,
                  budget |-> budget, repoState |-> repoState,
                  out |-> buildContextPack(repo[ret.root], repoState, ret.prompt, budget)]
    /\ UNCHANGED <<env, clock, repo, persistent, inMemory>>

NextContext == BuildContextPack

SpecContext == InitContext /\ [][NextContext]_vars

\* C29: when the prompt yields no keywords the context pack is exactly the
\* literal "No relevant files identified.", whatever files are changed.
C29_NoKeywordsLiteral ==
    (ret.op = "context" /\ extractKeywords(ret.prompt) = <<>>) =>
        ret.out = Txt("CONTEXT", <<"No relevant files identified.">>, "ascii", 29)

\* what holds of every call: the literal is the pack exactly when there is
\* neither a changed file nor a search hit
C29_NoFilesLiteral ==
    ret.op = "context" =>
        (ret.out = Txt("CONTEXT", <<"No relevant files identified.">>, "ascii", 29))
            <=> (/\ ret.repoState.changedFiles = <<>>
                 /\ searchRelevantFiles(repo[ret.root], extractKeywords(ret.prompt)) = <<>>)

\* the paths of the summaries in a context pack, in order
summarizedFiles(out) ==
    LET summaries == SelectSeq(out, LAMBDA run : run.src[1] = "summary")
    IN  [i \in 1..Len(summaries) |-> summaries[i].src[2]]

\* the bytes of the summaries in a context pack, the separators left out
summaryBytes(out) == ByteLength(SelectSeq(out, LAMBDA run : run.src[1] = "summary"))

\* the files of the call in the order it reads them, those with a summary
readableFiles(r, repoState, prompt, budget) ==
    LET uniqueFiles ==
            Take(Unique(Take(repoState.changedFiles, 4)
                            \o searchRelevantFiles(r, extractKeywords(prompt))),
                 budget.maxContextFiles)
    IN  SelectSeq(uniqueFiles,
                  LAMBDA f : readSummary(r, f, budget.maxFileReadBytes) \notin {Null, <<>>})

\* the pack holds the summaries of the first readable files, and the next
\* one, if there is one, would take the summaries over the budget
StopsAtFirstOverflow ==
    LET files == summarizedFiles(ret.out)
        readable == readableFiles(repo[ret.root], ret.repoState, ret.prompt, ret.budget)
    IN  /\ files = Take(readable, Len(files))
        /\ Len(files) < Len(readable) =>
              summaryBytes(ret.out)
                    + ByteLength(readSummary(repo[ret.root], readable[Len(files) + 1],
                                             ret.budget.maxFileReadBytes))
                  > ret.budget.maxContextSummaryBytes

\* C30: the text of the context pack, counting the summaries and the
\* separators between them, never exceeds max_context_summary_bytes; it holds
\* the summaries of at most max_context_files files; the accumulation stops
\* at the first summary that would overflow the budget.
C30_ContextWithinBudget ==
    ret.op = "context" =>
        /\ ByteLength(ret.out) <= ret.budget.maxContextSummaryBytes
        /\ Len(summarizedFiles(ret.out)) <= ret.budget.maxContextFiles
        /\ StopsAtFirstOverflow

\* what holds of every call: the summaries alone are within the budget, the
\* files within max_context_files, and the loop stops at the first overflow
C30_SummariesWithinBudget ==
    ret.op = "context" =>
        /\ summaryBytes(ret.out) <= ret.budget.maxContextSummaryBytes
        /\ Len(summarizedFiles(ret.out)) <= ret.budget.maxContextFiles
        /\ StopsAtFirstOverflow

(***************************************************************************)
(* SpecEvents: detectMeaningfulEvents applied to repository states with    *)
(* file counts and diff sizes on both sides of the thresholds, with and    *)
(* without a boundary-module file, to responses with and without a         *)
(* direction-change keyword, after a run that failed or did not.           *)
(***************************************************************************)
EventFileLists ==
    {ManyFiles(n) : n \in {0, 1, DEVLOG_FILE_THRESHOLD - 1, DEVLOG_FILE_THRESHOLD,
                           DEVLOG_FILE_THRESHOLD + 1}}
        \cup {<<PathSchema>>, ManyFiles(DEVLOG_FILE_THRESHOLD) \o <<PathSchema>>}

EventDiffLines ==
    {0, 10, DEVLOG_DIFF_THRESHOLD - 1, DEVLOG_DIFF_THRESHOLD, DEVLOG_DIFF_THRESHOLD + 1}

EventRepos ==
    {[RepoSmall EXCEPT !.files = files, !.diffLines = diffLines] :
        files \in EventFileLists, diffLines \in EventDiffLines}

ResponseInstead == <<"U", "s", "e", " ", "a", " ", "m", "a", "p", " ", "I", "n", "s", "t", "e", "a", "d">>

EventResponses == {ResponseDone, ResponsePivot, ResponseInstead}

\* the state after construction, with the arguments of the call to come
InitEvents ==
    /\ env = Env("active", TRUE, TRUE, "normal")
    /\ clock = 0
    /\ \E r \in EventRepos : repo = [root \in Roots |-> r]
    /\ settings = NoRow
    /\ packRows = EmptyMap
    /\ stateRows = [s \in SubChatIds |-> NoRow]
    /\ artifacts = <<>>
    /\ subChats = [s \in SubChatIds |->
                      [chatId |-> ChatOf(s), mode |-> "agent", messages |-> <<>>,
                       sessionId |-> Some("session"), streamId |-> Null, updatedAt |-> 0]]
    /\ chats = [c \in {ChatOf(s) : s \in SubChatIds} |-> 0]
    /\ contextPackCache = EmptyMap
    /\ subChatState = [s \in SubChatIds |-> Null]
    /\ protocolState = [s \in SubChatIds |-> Null]
    /\ searchCache = EmptyMap
    /\ searchRows = EmptyMap
    /\ calls = NoCalls
    /\ \E root \in Roots, assistantResponse \in EventResponses, wasError \in BOOLEAN :
          ret = [op |-> "input", root |-> root, assistantResponse |-> assistantResponse,
                 wasError |-> wasError]

\* one call of detectMeaningfulEvents, on what the probes of the repository say
DetectMeaningfulEvents ==
    /\ ret.op = "input"
    /\ \E repoState \in {getRepoState(repo[ret.root])} :
       \E diffLines \in {getDiffStats(repo[ret.root])} :
          ret' = [op |-> "detect", repoState |-> repoState, diffLines |-> diffLines,
                  assistantResponse |-> ret.assistantResponse, wasError |-> ret.wasError,
                  out |-> detectMeaningfulEvents(repoState, diffLines,
                                                 ret.assistantResponse, ret.wasError)]
    /\ UNCHANGED <<env, clock, repo, persistent, inMemory>>

NextEvents == DetectMeaningfulEvents

SpecEvents == InitEvents /\ [][NextEvents]_vars

\* a changed file of the call lies under a boundary-module prefix
TouchesBoundary(changedFiles) ==
    \E i \in 1..Len(changedFiles) :
        \E prefix \in BOUNDARY_MODULE_PREFIXES : StartsWith(changedFiles[i], prefix)

\* the lowercased response contains a direction-change keyword
HasDirectionWord(assistantResponse) ==
    \E w \in DirectionWords : Includes(ToLower(assistantResponse), w)

\* C28: the event detector fires devlog exactly when diff_lines >= 120, or
\* the changed-file count is >= 6, or was_error is true, or a changed file
\* lies under a boundary-module prefix; adr exactly when a changed file lies
\* under a boundary-module prefix; rejected_approach exactly when was_error is
\* true or the lowercased response contains a direction-change keyword.  A
\* direction-change keyword alone does not fire devlog, and with was_error
\* true and one changed non-boundary file of 10 diff lines exactly devlog and
\* rejected_approach fire, both with the reason run-error.
C28_EventDetector ==
    ret.op = "detect" =>
        LET files == ret.repoState.changedFiles
            quiet == /\ ret.diffLines < 120 /\ Len(files) < 6
                     /\ ~TouchesBoundary(files)
        IN  /\ ret.out.devlog <=>
                  \/ ret.diffLines >= 120
                  \/ Len(files) >= 6
                  \/ ret.wasError
                  \/ TouchesBoundary(files)
            /\ ret.out.adr <=> TouchesBoundary(files)
            /\ ret.out.rejectedApproach <=>
                  (ret.wasError \/ HasDirectionWord(ret.assistantResponse))
            /\ (quiet /\ ~ret.wasError /\ HasDirectionWord(ret.assistantResponse)) =>
                  ~ret.out.devlog /\ ret.out.rejectedApproach
            /\ (ret.wasError /\ Len(files) = 1 /\ ~TouchesBoundary(files)
                     /\ ret.diffLines = 10) =>
                  /\ ret.out.devlog /\ ~ret.out.adr /\ ret.out.rejectedApproach
                  /\ ret.out.reasons = <<"run-error">>
                  /\ ret.out.rejectedReason = "run-error"

\* the failed run with one non-boundary file of 10 diff lines
C28_Witness ==
    /\ ret.op = "detect"
    /\ ret.wasError /\ Len(ret.repoState.changedFiles) = 1
    /\ ~TouchesBoundary(ret.repoState.changedFiles) /\ ret.diffLines = 10
    /\ ret.out.devlog /\ ret.out.rejectedApproach
    /\ ret.out.reasons = <<"run-error">>

\* the detector at its two thresholds: 6 changed files and 120 diff lines
C28_WitnessThresholds ==
    /\ ret.op = "detect" /\ ~ret.wasError
    /\ Len(ret.repoState.changedFiles) = 6 /\ ret.diffLines = 120
    /\ ret.out.reasons = <<"diff>120", "changed_files>6">>

(***************************************************************************)
(* The envelope of a miss                                                  *)
(***************************************************************************)
\* the sections of the composite envelope for the chat mode, in order
envelopeSections(mode) ==
    <<"STATE_IDS", "ANCHOR", "CONTEXT">>
        \o (IF mode = "plan" THEN <<"PLAN_CONTRACT">> ELSE <<>>)
        \o <<"DELTA", "OBJECTIVE", "USER_REQUEST">>

\* the text is a whole envelope for the mode: every section in order, the
\* state-ids block first, the USER_REQUEST label last
IsEnvelope(pack, mode) ==
    /\ Sections(pack) = envelopeSections(mode)
    /\ pack[1].src[1] = "state_ids"
    /\ <<pack[Len(pack)]>> = userRequestLabel

\* C24: on every cache miss in active mode, for every anchor, context and
\* delta size and every budget, the returned prompt consists of the sections
\* STATE_IDS, ANCHOR, CONTEXT, PLAN_CONTRACT (plan mode only), DELTA,
\* OBJECTIVE, USER_REQUEST in that order, begins with the STATE_IDS label and
\* ends with the USER_REQUEST label, a blank line and the original prompt;
\* the pack stored in the cache has the same sections in the same order.
C24_EnvelopeStability ==
    (ret.op = "apply" /\ ret.continuityMode = "active" /\ ~ret.cacheHit) =>
        /\ IsEnvelope(ret.pack, ret.input.mode)
        /\ ret.prompt = withPrompt(ret.pack, ret.input.prompt)
        /\ ret.cacheKey \in DOMAIN contextPackCache =>
              IsEnvelope(contextPackCache[ret.cacheKey], ret.input.mode)
        /\ ret.cacheKey \in DOMAIN packRows =>
              IsEnvelope(packRows[ret.cacheKey].pack, ret.input.mode)

(***************************************************************************)
(* SpecSessions: the applies of two sub-chats of one repository, with      *)
(* prompts that differ in case and spacing only, in wording, in chat mode  *)
(* and in provider, while the process restarts.                            *)
(***************************************************************************)
MaxSessionPacks == 2

SessionEnvs == {Env("passive", TRUE, FALSE, "normal"), Env("active", TRUE, FALSE, "normal")}

SessionApplyInputs ==
    {[subChatId |-> s, root |-> root, prompt |-> c[1], mode |-> c[2], provider |-> c[3]] :
        s \in SubChatIds, root \in Roots,
        c \in {<<PromptRefactor, "agent", "claude">>, <<PromptRefactorLoud, "agent", "claude">>,
               <<PromptFix, "agent", "claude">>, <<PromptRefactor, "plan", "claude">>,
               <<PromptRefactor, "agent", "codex">>}}

InitSessions == \E e \in SessionEnvs : InitWith(e, RepoSmall)

NextSessions ==
    \/ \E input \in SessionApplyInputs :
          Apply(input, TRUE) /\ Cardinality(storedKeys') <= MaxSessionPacks
    \/ Restart(env)

SpecSessions == InitSessions /\ [][NextSessions]_vars

\* the sections of the delta-only envelope followed by the prompt
deltaOnlySections == <<"STATE_IDS", "DELTA", "OBJECTIVE", "USER_REQUEST", "SEPARATOR", "PROMPT">>

\* C26: in passive or active mode, after every apply ProtocolState[sub] is
\* the CacheKey of that call; a hit uses the delta-only envelope with
\* reused_percent 95 exactly when ProtocolState[sub] before the call equals
\* the key, and otherwise the full envelope with reused_percent 75.  So the
\* second A of the keys A, B, A gets the full envelope, and so does a
\* sub-session that hits a pack another sub-session built.
C26_EnvelopeSelection ==
    [][(ret'.op = "apply" /\ ret'.continuityMode \in {"passive", "active"}) =>
          /\ protocolState'[ret'.subChatId] = ret'.cacheKey
          /\ ret'.cacheHit =>
                LET repeated == protocolState[ret'.subChatId] = ret'.cacheKey
                IN  /\ ret'.reusedPercent = (IF repeated THEN 95 ELSE 75)
                    /\ ret'.continuityMode = "active" =>
                          IF repeated
                          THEN Sections(ret'.prompt) = deltaOnlySections
                          ELSE ret'.prompt = withPrompt(ret'.pack, ret'.input.prompt)
      ]_vars

\* a full-envelope hit of a sub-chat that built both stored packs itself,
\* the other sub-chat having made no call: it had applied with the other key
\* in between
C26_Witness ==
    /\ ret.op = "apply" /\ ret.continuityMode = "active"
    /\ ret.cacheHit /\ ret.reusedPercent = 75
    /\ ret.subChatId = "s1"
    /\ Cardinality(DOMAIN contextPackCache) = 2
    /\ stateRows["s2"] = NoRow /\ protocolState["s2"] = Null

\* a sub-chat that never built a pack hits the pack another sub-chat built
C26_WitnessOtherSession ==
    /\ ret.op = "apply" /\ ret.continuityMode = "active"
    /\ ret.cacheHit /\ ret.reusedPercent = 75
    /\ ret.subChatId = "s2"
    /\ stateRows["s2"] = NoRow /\ stateRows["s1"] # NoRow

\* a repeated key: the delta-only envelope
C26_WitnessRepeated ==
    /\ ret.op = "apply" /\ ret.continuityMode = "active"
    /\ ret.cacheHit /\ ret.reusedPercent = 95
    /\ Sections(ret.prompt) = deltaOnlySections

\* C27: after the first apply of a sub-session in passive or active mode
\* returns, a SessionState exists for it, whether the call was a miss or a
\* hit on a pack another sub-session built; hence a later apply of the
\* sub-session never has the first-run delta.
C27_SessionStateOnFirstApply ==
    [][(ret'.op = "apply" /\ ret'.continuityMode \in {"passive", "active"}) =>
          /\ sessionStateOf(subChatState', stateRows', ret'.subChatId) # Null
          /\ protocolState[ret'.subChatId] # Null =>
                deltaForm(deltaPackOf(ret')) # "first_run: true"
      ]_vars

\* what holds of every apply: a miss leaves a SessionState, a hit leaves the
\* SessionState as it was
C27_SessionStateOnMiss ==
    [][(ret'.op = "apply" /\ ret'.continuityMode \in {"passive", "active"}) =>
          IF ret'.cacheHit
          THEN sessionStateOf(subChatState', stateRows', ret'.subChatId)
                    = sessionStateOf(subChatState, stateRows, ret'.subChatId)
          ELSE sessionStateOf(subChatState', stateRows', ret'.subChatId) # Null
      ]_vars

(***************************************************************************)
(* SpecKeys: the cache key of apply derived for two inputs at a time, the  *)
(* inputs ranging over prompts, repository states, providers, chat modes   *)
(* and token modes.                                                        *)
(***************************************************************************)
KeyRepos ==
    {RepoSmall, [RepoSmall EXCEPT !.headCommit = "abc124"],
     [RepoSmall EXCEPT !.files = <<PathLimiter>>]}

KeyInputs ==
    {[prompt |-> prompt, repo |-> r, provider |-> provider, mode |-> mode,
      tokenMode |-> tokenMode] :
        prompt \in {PromptRefactor, PromptRefactorLoud, PromptFix}, r \in KeyRepos,
        provider \in Providers, mode \in ChatModes, tokenMode \in {"low", "normal"}}

\* the state after construction, with the inputs of two calls to come
InitKeys ==
    /\ env = Env("active", TRUE, TRUE, "normal")
    /\ clock = 0
    /\ repo = [root \in Roots |-> RepoSmall]
    /\ settings = NoRow
    /\ packRows = EmptyMap
    /\ stateRows = [s \in SubChatIds |-> NoRow]
    /\ artifacts = <<>>
    /\ subChats = [s \in SubChatIds |->
                      [chatId |-> ChatOf(s), mode |-> "agent", messages |-> <<>>,
                       sessionId |-> Some("session"), streamId |-> Null, updatedAt |-> 0]]
    /\ chats = [c \in {ChatOf(s) : s \in SubChatIds} |-> 0]
    /\ contextPackCache = EmptyMap
    /\ subChatState = [s \in SubChatIds |-> Null]
    /\ protocolState = [s \in SubChatIds |-> Null]
    /\ searchCache = EmptyMap
    /\ searchRows = EmptyMap
    /\ calls = NoCalls
    /\ \E a \in KeyInputs, b \in KeyInputs : ret = [op |-> "input", a |-> a, b |-> b]

\* the cache key apply derives for the input
cacheKeyFor(input) ==
    cacheKeyOf(sha(normalizePrompt(input.prompt)), getRepoState(input.repo),
               input.provider, input.mode, getContinuityBudgetProfile(input.tokenMode))

\* the key derivation of apply, for each of the two inputs
DeriveCacheKeys ==
    /\ ret.op = "input"
    /\ ret' = [op |-> "keys", a |-> ret.a, b |-> ret.b,
               keyA |-> cacheKeyFor(ret.a), keyB |-> cacheKeyFor(ret.b)]
    /\ UNCHANGED <<env, clock, repo, persistent, inMemory>>

NextKeys == DeriveCacheKeys

SpecKeys == InitKeys /\ [][NextKeys]_vars

\* the prompt lowercased, trimmed, its runs of white space made one space
foldedPrompt(prompt) == CollapseSpaces(ToLower(Trim(prompt)))

\* the components of the key an input stands for, the prompt as the text given
keyComponents(input, promptText) ==
    <<promptText, getRepoState(input.repo).changedFilesHash,
      getRepoState(input.repo).headCommit, input.provider, input.mode,
      getContinuityBudgetProfile(input.tokenMode).maxPackBytes>>

\* in how many components the two sequences differ
Differences(a, b) == Cardinality({i \in 1..Len(a) : a[i] # b[i]})

\* C23 as stated: inputs that differ in exactly one CacheKey component
\* (prompt text, changed_files_hash, head_commit, provider, mode,
\* max_pack_bytes) always have different keys, including prompts that
\* differ in a single character, such as letter case or white space only.
C23_AsStated ==
    (/\ ret.op = "keys"
     /\ Differences(keyComponents(ret.a, ret.a.prompt),
                    keyComponents(ret.b, ret.b.prompt)) = 1)
        => ret.keyA # ret.keyB

\* C23: inputs that differ in exactly one CacheKey component (the prompt
\* after lowercasing, trimming and collapsing white space, the
\* changed_files_hash, the head_commit, the provider, the mode, the
\* max_pack_bytes) always have different keys; inputs that differ in none,
\* such as prompts that differ in letter case or white space only, have the
\* same key.
C23_KeySensitivity ==
    ret.op = "keys" =>
        LET differences == Differences(keyComponents(ret.a, foldedPrompt(ret.a.prompt)),
                        keyComponents(ret.b, foldedPrompt(ret.b.prompt)))
        IN  /\ differences = 1 => ret.keyA # ret.keyB
            /\ differences = 0 => ret.keyA = ret.keyB

\* two inputs that differ in the head commit only, with different keys
C23_Witness ==
    /\ ret.op = "keys"
    /\ ret.a.repo.headCommit # ret.b.repo.headCommit
    /\ [ret.a EXCEPT !.repo = ret.b.repo] = ret.b
    /\ ret.a.repo.files = ret.b.repo.files
    /\ ret.keyA # ret.keyB

\* two prompts that differ in case and spacing only, with the same key
C23_WitnessFolded ==
    /\ ret.op = "keys"
    /\ ret.a.prompt = PromptRefactor /\ ret.b.prompt = PromptRefactorLoud
    /\ ret.keyA = ret.keyB

(***************************************************************************)
(* SpecCopies: two copies of the system run one after the other.  The      *)
(* first is used for a while (applies of two sub-chats, stored messages);  *)
(* then the same call is made to a freshly installed second copy whose     *)
(* repository has the same head commit and changed files.  ret still holds *)
(* what the first copy returned when the second copy answers.              *)
(***************************************************************************)
CopyRepos == {RepoSmall, [RepoSmall EXCEPT !.diffLines = 50, !.diffUnits = 1600]}

CopyApplyInputs ==
    {[subChatId |-> s, root |-> root, prompt |-> prompt, mode |-> "agent",
      provider |-> "claude"] :
        s \in SubChatIds, root \in Roots, prompt \in {PromptRefactor, PromptFix}}

InitCopies ==
    \E e \in {Env("active", TRUE, FALSE, "normal"), Env("passive", TRUE, FALSE, "normal")} :
        InitWith(e, RepoSmall)

\* the second copy takes over: a new installation under the same
\* environment, its repository in state r
OtherCopy(r) ==
    /\ ret.op = "apply"
    /\ \A root \in Roots : getRepoState(r) = getRepoState(repo[root])
    /\ repo' = [root \in Roots |-> r]
    /\ clock' = 0
    /\ settings' = NoRow
    /\ packRows' = EmptyMap
    /\ stateRows' = [s \in SubChatIds |-> NoRow]
    /\ artifacts' = <<>>
    /\ subChats' = [s \in SubChatIds |->
                      [chatId |-> ChatOf(s), mode |-> "agent", messages |-> <<>>,
                       sessionId |-> Some("session"), streamId |-> Null, updatedAt |-> 0]]
    /\ chats' = [c \in {ChatOf(s) : s \in SubChatIds} |-> 0]
    /\ contextPackCache' = EmptyMap
    /\ subChatState' = [s \in SubChatIds |-> Null]
    /\ protocolState' = [s \in SubChatIds |-> Null]
    /\ searchCache' = EmptyMap
    /\ searchRows' = EmptyMap
    /\ calls' = NoCalls
    /\ UNCHANGED <<env, ret>>

NextCopies ==
    \/ \E input \in CopyApplyInputs :
          Apply(input, TRUE) /\ Cardinality(storedKeys') <= MaxSessionPacks
    \/ \E m \in ChatMessages : AppendMessage("s1", m)
    \/ \E r \in CopyRepos : OtherCopy(r)

SpecCopies == InitCopies /\ [][NextCopies]_vars

\* the step is a building apply that follows a building apply of the same
\* prompt, repository state, provider, chat mode and budget: the call of the
\* second copy after that of the first
SameCallOnOtherCopy ==
    /\ ret.op = "apply" /\ ret'.op = "apply"
    /\ ret.continuityMode # "off" /\ ret'.continuityMode # "off"
    /\ ~ret.cacheHit /\ ~ret'.cacheHit
    /\ ret'.input.prompt = ret.input.prompt
    /\ ret'.cacheKey[2] = ret.cacheKey[2] /\ ret'.cacheKey[3] = ret.cacheKey[3]
    /\ ret'.input.provider = ret.input.provider
    /\ ret'.input.mode = ret.input.mode
    /\ ret'.budget = ret.budget

\* C22: two apply runs, started from two copies of the system, with
\* identical (prompt, repo_state, provider, mode, budget) compute the same
\* CacheKey and build the same pack, whatever the sub-session id, the prior
\* SessionState, the stored messages or the diff content of the repository.
C22_KeyDeterminism ==
    [][SameCallOnOtherCopy => (ret'.cacheKey = ret.cacheKey /\ ret'.pack = ret.pack)]_vars

\* what holds of the two runs: the same key, the same context_pack_id and
\* anchor_pack_id, and packs that are equal up to the DELTA section and the
\* state-ids block that names it
C22_SameKey ==
    [][SameCallOnOtherCopy =>
          /\ ret'.cacheKey = ret.cacheKey
          /\ ret'.stateIds.contextPackId = ret.stateIds.contextPackId
          /\ ret'.stateIds.anchorPackId = ret.stateIds.anchorPackId
          /\ SelectSeq(ret'.pack, LAMBDA run : run.sec \notin {"STATE_IDS", "DELTA"})
                = SelectSeq(ret.pack, LAMBDA run : run.sec \notin {"STATE_IDS", "DELTA"})
      ]_vars

(***************************************************************************)
(* SpecGate: recordRunOutcome under every setting of the two governor      *)
(* capabilities, in passive and in active mode, while the repository grows *)
(* and shrinks and time passes.                                            *)
(***************************************************************************)
GateEnvs ==
    {Env(m, s, r, "normal") : m \in {"passive", "active"}, s \in BOOLEAN, r \in BOOLEAN}

GateRepos == {RepoSmall, RepoLarge}

GateRecordInputs ==
    {[subChatId |-> "s1", root |-> root, provider |-> "claude", mode |-> "agent",
      prompt |-> PromptRefactor, assistantResponse |-> ResponseDone, injectedBytes |-> b,
      wasError |-> FALSE] :
        root \in Roots, b \in {Null, Some(SNAPSHOT_BYTES_THRESHOLD)}}

InitGate == \E e \in GateEnvs : InitWith(e, RepoSmall)

NextGate ==
    \/ \E input \in GateRecordInputs :
          RecordRunOutcome(input, TRUE) /\ Bounded(MaxPacks, MaxActiveArtifacts, MaxTurns)'
    \/ \E root \in Roots, r \in GateRepos : RepoChange(root, r)
    \/ Elapse(MaxActiveTicks)

SpecGate == InitGate /\ [][NextGate]_vars

\* the reasons decideGovernor gives with a snapshot, and with a rehydrate
snapshotLevelReasons ==
    {"turn-pressure", "context-pressure", "scope-pressure", "diff-pressure", "time-pressure"}

rehydrateLevelReasons ==
    {"turn-pressure-high", "context-pressure-high", "scope-pressure-high",
     "diff-pressure-high", "time-pressure-high"}

\* the reasons are of the level of the action
ReasonsOfLevel(action, reasons) ==
    CASE action = "ok" -> reasons = <<>>
      [] action = "snapshot" ->
            reasons # <<>> /\ \A i \in 1..Len(reasons) : reasons[i] \in snapshotLevelReasons
      [] action = "rehydrate" ->
            reasons # <<>> /\ \A i \in 1..Len(reasons) : reasons[i] \in rehydrateLevelReasons

\* C34 as stated: the reasons returned by recordRunOutcome are of the level of
\* the action it returns: none with ok, snapshot-level ones with snapshot,
\* rehydrate-level ones with rehydrate, under every capability setting.
C34_AsStated ==
    ret.op = "record" => ReasonsOfLevel(ret.action, ret.reasons)

\* C34: the reasons returned by recordRunOutcome are those of the governor's
\* decision before the capabilities are applied, and of that decision's level;
\* they are of the returned action's level whenever the capabilities left the
\* decided action as it was.
C34_ReasonsOfDecision ==
    (ret.op = "record" /\ ret.continuityMode # "off") =>
        /\ ret.reasons = ret.detail.governorDecision.reasons
        /\ ReasonsOfLevel(ret.detail.governorDecision.action, ret.reasons)
        /\ ret.action = ret.detail.governorDecision.action
              => ReasonsOfLevel(ret.action, ret.reasons)

\* a rehydrate decision returned as a snapshot, with the rehydrate's reasons
C34_Witness ==
    /\ ret.op = "record"
    /\ ret.detail.governorDecision.action = "rehydrate"
    /\ ~ret.detail.capabilities.rehydrateEnabled
    /\ ret.action = "snapshot"
    /\ ret.reasons # <<>>
    /\ \A i \in 1..Len(ret.reasons) : ret.reasons[i] \in rehydrateLevelReasons

\* a decision the capabilities turn into ok, returned with its reasons
C34_WitnessOk ==
    /\ ret.op = "record"
    /\ ret.detail.governorDecision.action # "ok"
    /\ ret.action = "ok"
    /\ ret.reasons # <<>>

\* a decision the capabilities leave as it is
C34_WitnessSame ==
    /\ ret.op = "record"
    /\ ret.detail.governorDecision.action = "rehydrate"
    /\ ret.action = "rehydrate"

(***************************************************************************)
(* The conversation of a sub-chat: what the engine may and may not touch   *)
(***************************************************************************)
\* the stored message list, session id and stream id of the sub-chat
conversationOf(rows, subChatId) ==
    IF rows[subChatId] = NoRow THEN NoRow
    ELSE [messages |-> rows[subChatId].messages, sessionId |-> rows[subChatId].sessionId,
          streamId |-> rows[subChatId].streamId]

\* C40: a step of the engine changes the stored messages, session id or
\* stream id of a sub-chat only if it is a recordRunOutcome in active mode
\* that returns rehydrate, and then only those of the call's sub-chat; apply
\* never changes them, and with rehydrate disabled no call changes them.
C40_Frame ==
    [][\A s \in SubChatIds :
          conversationOf(subChats', s) # conversationOf(subChats, s) =>
             /\ ret'.op = "record"
             /\ ret'.continuityMode = "active"
             /\ ret'.action = "rehydrate"
             /\ ret'.subChatId = s
             /\ env.rehydrateEnabled]_vars

\* a rehydrate has replaced the stored messages and cleared the session
C40_Witness ==
    /\ ret.op = "record"
    /\ ret.continuityMode = "active"
    /\ ret.action = "rehydrate"
    /\ Len(subChats[ret.subChatId].messages) = 1
    /\ subChats[ret.subChatId].sessionId = Null

\* calls of both kinds under the default capabilities, which left the
\* conversation as it was
C40_WitnessDefault ==
    /\ ~env.rehydrateEnabled
    /\ env.continuityMode = "active"
    /\ ret.op = "record"
    /\ ret.detail.governorDecision.action = "rehydrate"
    /\ packRows # EmptyMap
    /\ subChats[ret.subChatId].sessionId = Some("session")
    /\ subChats[ret.subChatId].messages = <<>>

(***************************************************************************)
(* SpecTurns: the turns of one sub-chat from its first call on, under      *)
(* every capability setting, with the packs of apply in between.           *)
(***************************************************************************)
MaxFirstTurns == 8

TurnRecordInputs ==
    {[subChatId |-> "s1", root |-> root, provider |-> "claude", mode |-> "agent",
      prompt |-> PromptRefactor, assistantResponse |-> ResponseDone, injectedBytes |-> b,
      wasError |-> FALSE] : root \in Roots, b \in {Null, Some(1200)}}

TurnApplyInputs ==
    {[subChatId |-> "s1", root |-> root, prompt |-> PromptRefactor, mode |-> "agent",
      provider |-> "claude"] : root \in Roots}

InitTurns == \E e \in GateEnvs : InitWith(e, RepoSmall)

NextTurns ==
    \/ \E input \in TurnRecordInputs :
          RecordRunOutcome(input, TRUE)
             /\ Bounded(MaxPacks, MaxActiveArtifacts, MaxFirstTurns)'
    \/ \E input \in TurnApplyInputs :
          Apply(input, TRUE) /\ Bounded(MaxPacks, MaxActiveArtifacts, MaxFirstTurns)'
    \/ Elapse(MaxActiveTicks)

SpecTurns == InitTurns /\ [][NextTurns]_vars

\* C36: with snapshots enabled and a working store, a recordRunOutcome that
\* finds no snapshot time takes the elapsed time as over the threshold, and
\* returns snapshot or rehydrate when it is the seventh turn or a later one;
\* the stored turnsSinceSnapshot of a sub-chat with no snapshot time never
\* exceeds 6.
C36_FirstSnapshot ==
    /\ (/\ ret.op = "record"
        /\ ret.continuityMode # "off"
        /\ ret.up
        /\ ret.detail.capabilities.snapshotEnabled
        /\ ret.detail.current.lastSnapshotAt = Null) =>
            /\ ret.detail.governorInput.elapsedSinceSnapshotMs >= SNAPSHOT_ELAPSED_MS
            /\ ret.detail.current.turnsSinceSnapshot + 1 >= SNAPSHOT_TURN_THRESHOLD
                  => ret.action # "ok"
    /\ \A s \in SubChatIds :
          (/\ env.snapshotEnabled
           /\ stateRows[s] # NoRow
           /\ stateRows[s].lastSnapshotAt = Null) =>
                stateRows[s].turnsSinceSnapshot <= SNAPSHOT_TURN_THRESHOLD - 1

\* the seventh turn of a sub-chat that was never snapshotted: it is answered
\* with a snapshot and the counters start again
C36_Witness ==
    /\ ret.op = "record"
    /\ ret.up
    /\ ret.detail.capabilities.snapshotEnabled
    /\ ret.detail.current.lastSnapshotAt = Null
    /\ ret.detail.current.turnsSinceSnapshot = SNAPSHOT_TURN_THRESHOLD - 1
    /\ ret.action = "snapshot"
    /\ stateRows[ret.subChatId].turnsSinceSnapshot = 0
    /\ stateRows[ret.subChatId].lastSnapshotAt # Null

\* six turns stored and no snapshot yet
C36_WitnessSix ==
    /\ env.snapshotEnabled
    /\ stateRows["s1"] # NoRow
    /\ stateRows["s1"].lastSnapshotAt = Null
    /\ stateRows["s1"].turnsSinceSnapshot = SNAPSHOT_TURN_THRESHOLD - 1

\* with snapshots disabled the turns go on past the threshold
C36_WitnessDisabled ==
    /\ ~env.snapshotEnabled
    /\ stateRows["s1"] # NoRow
    /\ stateRows["s1"].lastSnapshotAt = Null
    /\ stateRows["s1"].turnsSinceSnapshot > SNAPSHOT_TURN_THRESHOLD - 1

C35_WitnessRecord ==
    /\ ret.op = "record"
    /\ ret.action = "ok"
    /\ ret.input.injectedBytes = Some(SNAPSHOT_BYTES_THRESHOLD)
    /\ stateRows[ret.subChatId] # NoRow
    /\ stateRows[ret.subChatId].totalInjectedBytes >= SNAPSHOT_BYTES_THRESHOLD

(***************************************************************************)
(* The in-memory tiers against the tables they are filled from             *)
(***************************************************************************)
\* every pack of the in-memory pack cache is the pack of the row under its
\* key
hotPacksPersisted ==
    \A k \in DOMAIN contextPackCache :
        k \in DOMAIN packRows /\ packRows[k].pack = contextPackCache[k]

\* every hash of the in-memory sub-chat state is the hash of the sub-chat's
\* row
hotHashesPersisted ==
    \A s \in SubChatIds :
        subChatState[s] # Null =>
            stateRows[s] # NoRow /\ stateRows[s].lastChangedFilesHash = subChatState[s]

\* C39: in every reachable state, also after store writes that failed, a pack
\* held in memory under a key is the pack of the pack-cache row under that
\* key, and a changed-files hash held in memory for a sub-chat is the hash of
\* its state row.
C39_HotTiersPersisted == hotPacksPersisted /\ hotHashesPersisted

\* C39, the consequence: an apply reports a hit only if the pack-cache table
\* holds the pack it returns.
C39_HitsFromStore ==
    (ret.op = "apply" /\ ret.cacheHit) =>
        /\ ret.cacheKey \in DOMAIN packRows
        /\ packRows[ret.cacheKey].pack = ret.pack

(***************************************************************************)
(* SpecInject: apply for two sub-chats under the low token mode, over a    *)
(* small repository and one whose twenty changed files lie deep in the     *)
(* tree, so that every envelope is returned: the pack just built, the      *)
(* cached pack, and the delta-only envelope in each form of the delta.     *)
(***************************************************************************)
DeepPathLen == 500

\* the i-th of the deep paths: sorted and distinct
DeepPath(i) ==
    [j \in 1..DeepPathLen |->
        IF j < DeepPathLen THEN (IF j % 40 = 0 THEN "/" ELSE "d")
        ELSE <<"a", "b", "c", "d", "e", "f", "g", "h", "i", "j", "k", "l", "m", "n", "o",
               "p", "q", "r", "s", "t">>[i]]

RepoDeep ==
    [RepoLarge EXCEPT !.headCommit = "fed789", !.files = [i \in 1..20 |-> DeepPath(i)]]

InjectEnvs == {Env("passive", TRUE, FALSE, "low"), Env("active", TRUE, FALSE, "low")}

InjectRepos == {RepoSmall, RepoDeep}

InjectApplyInputs ==
    {[subChatId |-> s, root |-> root, prompt |-> p, mode |-> "agent", provider |-> "claude"] :
        s \in SubChatIds, root \in Roots, p \in {PromptRefactor, PromptFix}}

InitInject == \E e \in InjectEnvs : InitWith(e, RepoSmall)

NextInject ==
    \/ \E input \in InjectApplyInputs :
          Apply(input, TRUE) /\ Cardinality(storedKeys') <= MaxSessionPacks
    \/ \E root \in Roots, r \in InjectRepos : RepoChange(root, r)

SpecInject == InitInject /\ [][NextInject]_vars

\* the bytes an apply put in front of the prompt, the separator included
prependedBytes(out) == ByteLength(out.prompt) - ByteLength(AsText("PROMPT", out.input.prompt))

\* C38: in active mode the text apply puts in front of the prompt, on a miss
\* and on a hit with either envelope, is never longer than max_pack_bytes
\* plus the two bytes of the separator.
C38_InjectionBudget ==
    (ret.op = "apply" /\ ret.continuityMode = "active") =>
        prependedBytes(ret) <= ret.budget.maxPackBytes + 2

\* C38, the two envelopes that are a stored pack: the pack just built and the
\* cached pack keep to the budget.
C38_PackWithinBudget ==
    (ret.op = "apply" /\ ret.continuityMode = "active" /\ ret.reusedPercent \in {35, 75}) =>
        prependedBytes(ret) <= ret.budget.maxPackBytes + 2

(***************************************************************************)
(* SpecRoots: apply for two working directories, with and without version  *)
(* control, against one store.                                             *)
(***************************************************************************)
IsolationRoots == {"/w/app", "/w/notes"}

\* a directory without version control that holds a README and sources
DirNoGit ==
    [RepoNoGit EXCEPT !.anchors = << <<"README.md", "ascii", 500>> >>,
                      !.listing = <<PathBucket, PathLimiter>>,
                      !.fileBytes = 4000, !.summaryUnits = 300]

IsolationRepos == {RepoNoGit, DirNoGit, RepoSmall}

IsolationEnvs == {Env("passive", TRUE, FALSE, "normal"), Env("active", TRUE, FALSE, "normal")}

IsolationApplyInputs ==
    {[subChatId |-> c[1], root |-> c[2], prompt |-> PromptRefactor, mode |-> "agent",
      provider |-> "claude"] : c \in {<<"s1", "/w/app">>, <<"s2", "/w/notes">>}}

InitRoots ==
    /\ env \in IsolationEnvs
    /\ clock = 0
    /\ repo \in [IsolationRoots -> {RepoNoGit, DirNoGit}]
    /\ settings = NoRow
    /\ packRows = EmptyMap
    /\ stateRows = [s \in SubChatIds |-> NoRow]
    /\ artifacts = <<>>
    /\ subChats = [s \in SubChatIds |->
                      [chatId |-> ChatOf(s), mode |-> "agent", messages |-> <<>>,
                       sessionId |-> Some("session"), streamId |-> Null, updatedAt |-> 0]]
    /\ chats = [c \in {ChatOf(s) : s \in SubChatIds} |-> 0]
    /\ contextPackCache = EmptyMap
    /\ subChatState = [s \in SubChatIds |-> Null]
    /\ protocolState = [s \in SubChatIds |-> Null]
    /\ searchCache = EmptyMap
    /\ searchRows = EmptyMap
    /\ calls = NoCalls
    /\ ret = [op |-> "init"]

NextRoots ==
    \/ \E input \in IsolationApplyInputs :
          Apply(input, TRUE) /\ Cardinality(storedKeys') <= MaxSessionPacks
    \/ \E root \in IsolationRoots, r \in IsolationRepos : RepoChange(root, r)
    \/ Restart(env)

SpecRoots == InitRoots /\ [][NextRoots]_vars

\* the root a pack was built for: that of the anchorPackId in its state-ids
\* block, which is sha256(root:anchor:head)
builtFor(pack) == pack[1].src[2].anchorPackId[2][1]

\* C37: a pack that apply returns on a cache hit was built for the root of
\* the call; calls for different roots never share a pack-cache entry.
C37_RepositoryIsolation ==
    (ret.op = "apply" /\ ret.cacheHit) => builtFor(ret.pack) = ret.input.root

\* C37, the part that holds: the pack of a miss is built for the root of the
\* call, and a hit returns a pack stored under the call's own key.
C37_BuiltForOwnRoot ==
    /\ (ret.op = "apply" /\ ret.continuityMode # "off" /\ ~ret.cacheHit) =>
            builtFor(ret.pack) = ret.input.root
    /\ (ret.op = "apply" /\ ret.cacheHit) =>
            /\ ret.cacheKey \in DOMAIN packRows
            /\ packRows[ret.cacheKey].pack = ret.pack

(***************************************************************************)
(* SpecSearch: searchRelevantFiles called at instants around the lifetime  *)
(* of a result, while the files under the root change, the process         *)
(* restarts and the store fails.                                           *)
(***************************************************************************)
\* the instants of the calls, in ms
SearchInstants == {0, 500, 59500, 60000, 60500, 61000, 120000, 120500, 121000}

SearchRepos == {RepoSmall, RepoMedium}

SearchPrompts == {PromptRefactor, PromptFix}

InitSearch == InitWith(Env("passive", TRUE, FALSE, "normal"), RepoSmall)

\* one call of searchRelevantFiles, as buildContextPack makes it
SearchRelevantFiles(root, prompt, up) ==
    \E repoState \in {getRepoState(repo[root])} :
    \E keywords \in {extractKeywords(prompt)} :
    \E search \in {searchThroughCache(searchCache, searchRows, root, repo[root], keywords,
                                      repoState.headCommit, clock, up)} :
        /\ searchCache' = search.hot
        /\ searchRows' = search.rows
        /\ ret' = [op |-> "search", root |-> root, keywords |-> keywords,
                   key |-> searchKeyOf(root, repoState.headCommit, keywords),
                   now |-> clock, up |-> up, files |-> search.files]
        /\ UNCHANGED <<env, clock, repo, settings, packRows, stateRows, artifacts, subChats,
                       chats, contextPackCache, subChatState, protocolState, calls>>

\* time passes up to a later instant
AdvanceTo(t) ==
    /\ t > clock
    /\ clock' = t
    /\ ret' = [op |-> "env"]
    /\ UNCHANGED <<env, repo, persistent, inMemory>>

NextSearch ==
    \/ \E root \in Roots, prompt \in SearchPrompts, up \in BOOLEAN :
          SearchRelevantFiles(root, prompt, up)
    \/ \E t \in SearchInstants : AdvanceTo(t)
    \/ \E root \in Roots, r \in SearchRepos : RepoChange(root, r)
    \/ Restart(env)

SpecSearch == InitSearch /\ [][NextSearch]_vars

\* the entry of the key in the in-memory tier is younger than the lifetime
hotFresh(hot, key, now) == key \in DOMAIN hot /\ now - hot[key].timestamp < SEARCH_TTL_MS

\* the row of the key can be read and is not older than the lifetime
rowFresh(rows, key, now, up) ==
    up /\ key \in DOMAIN rows /\ now - rows[key].updatedAt <= SEARCH_TTL_MS

\* C31: a call of searchRelevantFiles with keywords returns the files of the
\* entry it leaves in the in-memory tier, and that entry is not older than 60
\* seconds.  With a fresh entry in memory it returns it and writes nothing;
\* else with a fresh row it returns the row's files and puts them in memory
\* with the row's timestamp, not the time of the call; else it returns the
\* listing's scored files and stores them in both tiers with the time of the
\* call (the row in whole seconds, and only if the store answers).
C31_SearchCacheTtl ==
    [][(ret'.op = "search" /\ ret'.keywords # <<>>) =>
          LET key == ret'.key
              now == ret'.now
              computed == searchRelevantFiles(repo[ret'.root], ret'.keywords)
          IN  /\ key \in DOMAIN searchCache'
              /\ ret'.files = searchCache'[key].files
              /\ now - searchCache'[key].timestamp <= SEARCH_TTL_MS
              /\ hotFresh(searchCache, key, now) =>
                    /\ UNCHANGED <<searchCache, searchRows>>
              /\ (~hotFresh(searchCache, key, now) /\ rowFresh(searchRows, key, now, ret'.up)) =>
                    /\ searchCache'[key] = [timestamp |-> searchRows[key].updatedAt,
                                            files |-> searchRows[key].files]
                    /\ UNCHANGED searchRows
              /\ (~hotFresh(searchCache, key, now) /\ ~rowFresh(searchRows, key, now, ret'.up)) =>
                    /\ searchCache'[key] = [timestamp |-> now, files |-> computed]
                    /\ ret'.up =>
                          /\ key \in DOMAIN searchRows'
                          /\ searchRows'[key].files = computed
                          /\ searchRows'[key].updatedAt = (now \div 1000) * 1000
                    /\ ~ret'.up => UNCHANGED searchRows]_vars

\* a result has expired in both tiers and the call has replaced it: the
\* files under the root have changed since, and both tiers hold the new
\* files with the time of the call
C31_Witness ==
    /\ ret.op = "search"
    /\ ret.up
    /\ ret.now > SEARCH_TTL_MS
    /\ ret.files # searchRelevantFiles(RepoSmall, ret.keywords)
    /\ searchCache[ret.key].timestamp = ret.now
    /\ searchRows[ret.key].updatedAt = ret.now

\* a row has been promoted after a restart, with its own timestamp
C31_WitnessPromoted ==
    /\ ret.op = "search"
    /\ ret.keywords # <<>>
    /\ ret.now = SEARCH_TTL_MS
    /\ searchCache[ret.key].timestamp = 0
    /\ ret.files # searchRelevantFiles(repo[ret.root], ret.keywords)

\* a result served from memory one tick before its lifetime ends, stale
\* against the files under the root
C31_WitnessStaleHit ==
    /\ ret.op = "search"
    /\ ret.keywords # <<>>
    /\ ret.now - searchCache[ret.key].timestamp = SEARCH_TTL_MS - 500
    /\ ret.files # searchRelevantFiles(repo[ret.root], ret.keywords)

\* ---------------------------------------------------------------------------
\* Calls in flight on the event loop.  A call runs without interruption from
\* one await of real I/O (a git, ripgrep or file-system child) to the next; the
\* awaits on the synchronous database only defer to the microtask queue, so no
\* other call runs there.  calls[c] holds the position and the locals of call c.
\* ---------------------------------------------------------------------------
OverlapEnvs == {Env(m, TRUE, FALSE, "normal") : m \in {"passive", "active"}}

OverlapRecordInputs ==
    {[subChatId |-> s, root |-> "/w/app", provider |-> "claude", mode |-> "agent",
      prompt |-> PromptRefactor, assistantResponse |-> ResponseDone, wasError |-> FALSE,
      injectedBytes |-> Some(1200)] : s \in SubChatIds}

InitOverlap == \E e \in OverlapEnvs : InitWith(e, RepoSmall)

AllIdle == \A c \in CallIds : calls[c].pc = "idle"

\* a call may start whenever the loop is free; call 2 is the later of the two
MayEnter(c) ==
    /\ calls[c].pc = "idle"
    /\ c = 2 => calls[1].pc # "idle"

\* recordRunOutcome up to its first await of git: the call is suspended in
\* getRepoState; `found` is what the state row holds when the call starts
RecordEnter(c, input) ==
    /\ MayEnter(c)
    /\ getContinuityMode(env) # "off"
    /\ calls' = [calls EXCEPT ![c] =
                    [pc |-> "entered", op |-> "record", input |-> input,
                     during |-> calls[1].pc,
                     found |-> countersOf(stateRows[input.subChatId])]]
    /\ ret' = [op |-> "enter", call |-> c]
    /\ UNCHANGED <<env, clock, repo, persistent, contextPackCache, subChatState,
                   protocolState, searchCache>>

\* active mode, from the return of getDiffStats to the await of git revparse in
\* assessAutoCommitPolicy: the state row, the time and the settings are read
RecordRead(c) ==
    /\ calls[c].pc = "entered"
    /\ calls[c].op = "record"
    /\ isActive(getContinuityMode(env))
    /\ \E input \in {calls[c].input} :
       \E r \in {repo[input.root]} :
          /\ settings' = settingsAfterRead(settings, env, clock, TRUE)
          /\ calls' = [calls EXCEPT ![c] =
                          [pc |-> "probing", op |-> "record", input |-> input,
                           during |-> calls[c].during,
                           found |-> calls[c].found, now |-> clock,
                           repoState |-> getRepoState(r), diffLines |-> getDiffStats(r),
                           current |-> getPersistedState(stateRows[input.subChatId], TRUE),
                           safeguardSettings |-> getSafeguardSettings(settings, env, TRUE)]]
    /\ ret' = [op |-> "suspend", call |-> c]
    /\ UNCHANGED <<env, clock, repo, packRows, stateRows, artifacts, subChats, chats,
                   searchRows, contextPackCache, subChatState, protocolState, searchCache>>

\* the rest of recordRunOutcome, which has no await of I/O left: in passive mode
\* from the return of getDiffStats, in active mode from the return of
\* assessAutoCommitPolicy with the locals read before it
RecordComplete(c) ==
    /\ calls[c].pc \in {"entered", "probing"}
    /\ calls[c].op = "record"
    /\ \E input \in {calls[c].input} :
       \/ /\ calls[c].pc = "entered"
          /\ ~isActive(getContinuityMode(env))
          /\ \E r \in {repo[input.root]} :
                RecordSteps(input, TRUE, Len(recordWriteOrder), 1, clock, getRepoState(r),
                            getDiffStats(r),
                            getPersistedState(stateRows[input.subChatId], TRUE), NoRow)
       \/ /\ calls[c].pc = "probing"
          /\ RecordSteps(input, TRUE, Len(recordWriteOrder), 2, calls[c].now,
                         calls[c].repoState, calls[c].diffLines, calls[c].current,
                         calls[c].safeguardSettings)
    /\ calls' = [calls EXCEPT ![c] =
                    [pc |-> "done", op |-> "record", input |-> calls[c].input,
                     during |-> calls[c].during, found |-> calls[c].found,
                     out |-> ret']]

OverlapApplyInputs ==
    {[subChatId |-> s, root |-> "/w/app", prompt |-> PromptRefactor, mode |-> "agent",
      provider |-> "claude"] : s \in SubChatIds}

\* apply up to its first await of git: the budget is read, the call is suspended
\* in getRepoState
ApplyEnter(c, input) ==
    /\ MayEnter(c)
    /\ getContinuityMode(env) # "off"
    /\ calls' = [calls EXCEPT ![c] =
                    [pc |-> "entered", op |-> "apply", input |-> input,
                     during |-> calls[1].pc, foundRow |-> stateRows[input.subChatId],
                     budget |-> getContinuityBudgetProfile(
                                    getConfiguredTokenMode(settings, env.tokenMode, TRUE))]]
    /\ ret' = [op |-> "enter", call |-> c]
    /\ UNCHANGED <<env, clock, repo, persistent, contextPackCache, subChatState,
                   protocolState, searchCache>>

\* from the return of getRepoState to the await of git diff in buildDeltaPack:
\* the cache key is made and the pack looked up, a persisted pack promoted
ApplyLookup(c) ==
    /\ calls[c].pc = "entered"
    /\ calls[c].op = "apply"
    /\ \E input \in {calls[c].input} :
       \E repoState \in {getRepoState(repo[input.root])} :
       \E cacheKey \in {cacheKeyOf(sha(normalizePrompt(input.prompt)), repoState,
                                   input.provider, input.mode, calls[c].budget)} :
       \E cached \in {getCachedPack(contextPackCache, packRows, cacheKey, TRUE)} :
          /\ contextPackCache' = IF cached # Null
                                 THEN Put(contextPackCache, cacheKey, cached)
                                 ELSE contextPackCache
          /\ calls' = [calls EXCEPT ![c] =
                          [pc |-> "delta", op |-> "apply", input |-> input,
                           during |-> calls[c].during, foundRow |-> calls[c].foundRow,
                           budget |-> calls[c].budget, repoState |-> repoState,
                           cacheKey |-> cacheKey, cached |-> cached]]
    /\ ret' = [op |-> "suspend", call |-> c]
    /\ UNCHANGED <<env, clock, repo, persistent, subChatState, protocolState, searchCache>>

\* from the return of git diff to the return of a hit, or on a miss to the
\* await of the file system in buildAnchorPack
ApplyDelta(c) ==
    /\ calls[c].pc = "delta"
    /\ \E input \in {calls[c].input} :
       \E repoState \in {calls[c].repoState} :
       \E cacheKey \in {calls[c].cacheKey} :
       \E cached \in {calls[c].cached} :
       \E previous \in {getSubChatState(subChatState[input.subChatId],
                                        stateRows[input.subChatId], TRUE)} :
       \E deltaPack \in {buildDeltaPack(previous, repoState, input.prompt,
                             getDiffSnippet(repo[input.root]),
                             getLatestFailingTestDigest(subChats[input.subChatId], TRUE))} :
       \E stateIds \in {[anchorPackId |->
                             sha(<<input.root, ":anchor:", repoState.headCommit>>),
                         contextPackId |-> sha(cacheKey),
                         deltaPackId |-> sha(deltaPack),
                         planContractId |->
                             IF input.mode = "plan" THEN sha(normalizePrompt(input.prompt))
                             ELSE Null]} :
       LET continuityMode == getContinuityMode(env)
           promptText == AsText("PROMPT", input.prompt)
           canUseDeltaOnly == protocolState[input.subChatId] = cacheKey
       IN  /\ subChatState' = IF previous # Null
                              THEN [subChatState EXCEPT ![input.subChatId] = previous]
                              ELSE subChatState
           /\ IF cached # Null
              THEN \E selectedPrompt \in
                          {IF canUseDeltaOnly
                           THEN withPrompt(deltaOnlyEnvelope(stateIds, deltaPack,
                                                             input.prompt), input.prompt)
                           ELSE withPrompt(cached, input.prompt)} :
                   \E injectedBytes \in
                          {Max(ByteLength(selectedPrompt) - ByteLength(promptText), 0)} :
                   LET reusedPercent == IF canUseDeltaOnly THEN 95 ELSE 75
                   IN  /\ protocolState' =
                              [protocolState EXCEPT ![input.subChatId] = cacheKey]
                       /\ ret' = applyOutput(input, continuityMode,
                                      returnedPrompt(continuityMode, promptText,
                                                     selectedPrompt),
                                      TRUE, returnedBytes(continuityMode, injectedBytes),
                                      reusedPercent, stateIds, cacheKey, calls[c].budget,
                                      cached,
                                      <<packMetrics(input.provider, input.mode, TRUE,
                                                    ByteLength(selectedPrompt),
                                                    injectedBytes, reusedPercent)>>, TRUE)
                       /\ calls' = [calls EXCEPT ![c] =
                                       [pc |-> "done", op |-> "apply", input |-> input,
                                        during |-> calls[c].during,
                                        foundRow |-> calls[c].foundRow, out |-> ret']]
              ELSE /\ ret' = [op |-> "suspend", call |-> c]
                   /\ calls' = [calls EXCEPT ![c] =
                                   [pc |-> "build", op |-> "apply", input |-> input,
                                    during |-> calls[c].during,
                                    foundRow |-> calls[c].foundRow,
                                    budget |-> calls[c].budget, repoState |-> repoState,
                                    cacheKey |-> cacheKey, deltaPack |-> deltaPack,
                                    stateIds |-> stateIds]]
                   /\ UNCHANGED protocolState
    /\ UNCHANGED <<env, clock, repo, persistent, contextPackCache, searchCache>>

\* the pack of a miss as storeCachedPack writes it: the hot entry, then the row
packRowOf(input, cacheKey, repoState, budget, pack, now) ==
    [key |-> cacheKey, taskFingerprint |-> sha(normalizePrompt(input.prompt)),
     changedFilesHash |-> repoState.changedFilesHash, headCommit |-> repoState.headCommit,
     provider |-> input.provider, mode |-> input.mode, budgetBytes |-> budget.maxPackBytes,
     pack |-> pack, updatedAt |-> now]

storeCachedPackHotFirstWins(hot, key, pack) ==
    IF key \in DOMAIN hot THEN hot ELSE Put(hot, key, pack)

storeCachedPackHot(hot, key, pack) == Put(hot, key, pack)

\* a miss from the return of the file reads to the return of storeCachedPack:
\* the pack is composed, clamped and stored in both tiers
ApplyStorePack(c) ==
    /\ calls[c].pc = "build"
    /\ \E input \in {calls[c].input} :
       \E r \in {repo[input.root]} :
       \E search \in {searchThroughCache(searchCache, searchRows, input.root, r,
                                         extractKeywords(input.prompt),
                                         calls[c].repoState.headCommit, clock, TRUE)} :
       \E budgeted \in
              {clampByBytes(composite(calls[c].stateIds, buildAnchorPack(r),
                                      contextPackOf(search.files, r, calls[c].repoState,
                                                    calls[c].budget),
                                      input.mode, calls[c].deltaPack, input.prompt),
                            calls[c].budget.maxPackBytes)} :
          /\ searchCache' = search.hot
          /\ searchRows' = search.rows
          /\ contextPackCache' =
                 storeCachedPackHot(contextPackCache, calls[c].cacheKey, budgeted)
          /\ packRows' = Put(packRows, calls[c].cacheKey,
                             packRowOf(input, calls[c].cacheKey, calls[c].repoState,
                                       calls[c].budget, budgeted, clock))
          /\ calls' = [calls EXCEPT ![c] =
                          [pc |-> "stored", op |-> "apply", input |-> input,
                           during |-> calls[c].during, foundRow |-> calls[c].foundRow,
                           budget |-> calls[c].budget, repoState |-> calls[c].repoState,
                           cacheKey |-> calls[c].cacheKey, stateIds |-> calls[c].stateIds,
                           budgeted |-> budgeted]]
    /\ ret' = [op |-> "suspend", call |-> c]
    /\ UNCHANGED <<env, clock, repo, settings, stateRows, artifacts, subChats, chats,
                   subChatState, protocolState>>

\* a miss from the return of storeCachedPack to the return of apply: the state
\* of the sub-chat is stored and the key noted in protocolState
ApplyFinish(c) ==
    /\ calls[c].pc = "stored"
    /\ \E input \in {calls[c].input} :
       \E budgeted \in {calls[c].budgeted} :
       \E injectedBytes \in
              {Max(ByteLength(withPrompt(budgeted, input.prompt))
                      - ByteLength(AsText("PROMPT", input.prompt)), 0)} :
       LET continuityMode == getContinuityMode(env)
       IN  /\ subChatState' = [subChatState EXCEPT
                                  ![input.subChatId] = calls[c].repoState.changedFilesHash]
           /\ stateRows' = [stateRows EXCEPT ![input.subChatId] =
                               storeSubChatStateRow(@, input.subChatId,
                                                    calls[c].repoState.changedFilesHash,
                                                    budgeted, clock)]
           /\ protocolState' =
                  [protocolState EXCEPT ![input.subChatId] = calls[c].cacheKey]
           /\ ret' = applyOutput(input, continuityMode,
                          returnedPrompt(continuityMode, AsText("PROMPT", input.prompt),
                                         withPrompt(budgeted, input.prompt)),
                          FALSE, returnedBytes(continuityMode, injectedBytes), 35,
                          calls[c].stateIds, calls[c].cacheKey, calls[c].budget, budgeted,
                          <<packMetrics(input.provider, input.mode, FALSE,
                                        ByteLength(budgeted), injectedBytes, 35)>>, TRUE)
           /\ calls' = [calls EXCEPT ![c] =
                           [pc |-> "done", op |-> "apply", input |-> input,
                            during |-> calls[c].during, foundRow |-> calls[c].foundRow,
                            out |-> ret']]
    /\ UNCHANGED <<env, clock, repo, settings, packRows, artifacts, subChats, chats,
                   searchRows, contextPackCache, searchCache>>

\* the calls have returned to their callers
CallsReturned ==
    /\ \A c \in CallIds : calls[c].pc = "done"
    /\ calls' = NoCalls
    /\ ret' = [op |-> "env"]
    /\ UNCHANGED <<env, clock, repo, persistent, contextPackCache, subChatState,
                   protocolState, searchCache>>

NextOverlap ==
    \/ \E c \in CallIds, input \in OverlapRecordInputs : RecordEnter(c, input)
    \/ \E c \in CallIds : RecordRead(c)
    \/ \E c \in CallIds : RecordComplete(c)
    \/ \E c \in CallIds, input \in OverlapApplyInputs : ApplyEnter(c, input)
    \/ \E c \in CallIds : ApplyLookup(c)
    \/ \E c \in CallIds : ApplyDelta(c)
    \/ \E c \in CallIds : ApplyStorePack(c)
    \/ \E c \in CallIds : ApplyFinish(c)
    \/ /\ CallsReturned
       /\ Bounded(MaxPacks, MaxActiveArtifacts, MaxTurns)'

SpecOverlap == InitOverlap /\ [][NextOverlap]_vars

BothDone(op) == \A c \in CallIds : calls[c].pc = "done" /\ calls[c].op = op

SameSubChat == calls[1].input.subChatId = calls[2].input.subChatId

\* call 2 started while call 1 was suspended at an await
Overlapped == calls[2].during \notin {"idle", "done"}

injectedOf(c) == injectedOrZero(calls[c].input.injectedBytes)

\* C33: two recordRunOutcome calls for one sub-chat whose executions overlap and
\* which both return ok leave turnsSinceSnapshot at the value found by the first
\* plus 2 and totalInjectedBytes at the value found plus the bytes of both calls
C33_NoLostUpdate ==
    (/\ BothDone("record")
     /\ SameSubChat
     /\ Overlapped
     /\ \A c \in CallIds : calls[c].out.action = "ok")
    => LET row == stateRows[calls[1].input.subChatId]
       IN  /\ row # NoRow
           /\ row.turnsSinceSnapshot = calls[1].found.turnsSinceSnapshot + 2
           /\ row.totalInjectedBytes =
                 calls[1].found.totalInjectedBytes + injectedOf(1) + injectedOf(2)

\* in passive mode no await of I/O lies between the read of the state row and
\* its write, and the two calls count as two turns
C33_PassiveNoLostUpdate == getContinuityMode(env) = "passive" => C33_NoLostUpdate

C33_PassiveOverlap ==
    /\ getContinuityMode(env) = "passive"
    /\ BothDone("record")
    /\ SameSubChat
    /\ Overlapped
    /\ calls[2].out.action = "ok"
    /\ stateRows[calls[1].input.subChatId].turnsSinceSnapshot = 2

ApplyPair ==
    /\ BothDone("apply")
    /\ ~SameSubChat
    /\ calls[1].out.cacheKey = calls[2].out.cacheKey

RecordPair == BothDone("record") /\ ~SameSubChat

\* the packs the two calls built themselves
builtPacks == {calls[c].out.pack : c \in {d \in CallIds : ~calls[d].out.cacheHit}}

ownChangedFilesHash(c) == getRepoState(repo[calls[c].input.root]).changedFilesHash

\* C32: after two apply calls of different sub-chats with one cache key have
\* both returned, however their steps interleaved, the key has one pack in
\* both tiers, the hot entry equals the row and is a pack one of the calls
\* built, and the state row, hot state and protocolState of each sub-chat are
\* those of its own call; after two recordRunOutcome calls of different
\* sub-chats the counters of each are those of its call run alone
C32_Interleaved ==
    /\ ApplyPair =>
          \E k \in {calls[1].out.cacheKey} :
             /\ k \in DOMAIN contextPackCache
             /\ k \in DOMAIN packRows
             /\ contextPackCache[k] = packRows[k].pack
             /\ builtPacks # {} => contextPackCache[k] \in builtPacks
             /\ \A c \in CallIds :
                   \E s \in {calls[c].input.subChatId} :
                      /\ protocolState[s] = calls[c].out.cacheKey
                      /\ IF calls[c].out.cacheHit
                         THEN stateRows[s] = calls[c].foundRow
                         ELSE /\ subChatState[s] = ownChangedFilesHash(c)
                              /\ stateRows[s] # NoRow
                              /\ stateRows[s].subChatId = s
                              /\ stateRows[s].lastChangedFilesHash = ownChangedFilesHash(c)
                              /\ stateRows[s].totalInjectedBytes =
                                    ByteLength(calls[c].out.pack)
    /\ RecordPair =>
          \A c \in CallIds :
             \E row \in {stateRows[calls[c].input.subChatId]} :
                /\ row # NoRow
                /\ IF calls[c].out.action = "ok"
                   THEN /\ row.turnsSinceSnapshot = calls[c].found.turnsSinceSnapshot + 1
                        /\ row.totalInjectedBytes =
                              calls[c].found.totalInjectedBytes + injectedOf(c)
                        /\ row.lastSnapshotAt = calls[c].found.lastSnapshotAt
                   ELSE /\ row.turnsSinceSnapshot = 0
                        /\ row.totalInjectedBytes = 0
                        /\ row.lastSnapshotAt = Some(calls[c].out.now)

\* both calls missed and built different packs while overlapping
C32_Witness ==
    /\ ApplyPair
    /\ Overlapped
    /\ \A c \in CallIds : ~calls[c].out.cacheHit
    /\ calls[1].out.pack # calls[2].out.pack

\* the pack of the call that started first was stored last
C32_WitnessFirstWins ==
    /\ C32_Witness
    /\ contextPackCache[calls[1].out.cacheKey] = calls[1].out.pack

\* two records of different sub-chats in active mode, the second started while
\* the first waited for git
C32_WitnessRecords ==
    /\ RecordPair
    /\ calls[2].during = "probing"
    /\ \A c \in CallIds : calls[c].out.action = "ok"

====
